---- MODULE Spec2Model ----
(***************************************************************************)
(* Support-request intake: POST /support validates a payload and appends   *)
(* it to a JSON queue file; the backup manager snapshots, restores and     *)
(* applies retention to that file, lists and prunes its backups and runs   *)
(* them on a timer; the export engine renders the queue as JSON or CSV and *)
(* computes statistics of it.                                              *)
(*                                                                         *)
(* Text is a sequence of one-character strings.  A file's content is       *)
(* [kind, value]: kind "json" when the bytes are the JSON encoding of      *)
(* value.  A timestamp is a number of milliseconds.                        *)
(***************************************************************************)
EXTENDS Integers, Sequences, FiniteSets, TLC

VARIABLES
  queueFile,       \* the queue file: [exists, text]
  backupDir,       \* data/backups: filename -> file content
  now,             \* the system clock (ms)
  nextUuid,        \* how many ids randomUUID has handed out
  rateLimitStore,  \* per process: key -> [count, resetTime]
  retentionPeriod, \* storageConfig.retentionPeriod (ms)
  task,            \* the requests in flight: locals and position of each
  made,            \* history: <<filename, data>> of the backup POST /admin/backup returned
                   \* last, while only appends and retention runs have followed it
  submitted,       \* history: the records POST /support created, in order
  exportDir,       \* data/exports: filename -> file content
  backupInterval,  \* the scheduler's timer handle, 0 for null
  timers,          \* the interval timers the process has armed
  timerSeq         \* how many timers setInterval has handed out

vars ==
  <<queueFile, backupDir, now, nextUuid, rateLimitStore, retentionPeriod, task, made,
    submitted, exportDir, backupInterval, timers, timerSeq>>

---------------------------------------------------------------------------
(* Bounds of the model *)

MaxTime == 1
MaxUuid == 2
MaxRequests == 4
MaxKeep == 2
MaxTimers == 2
MaxExports == 2

Procs == {"p1", "p2"}
OneProc == {"p1"}
IPs == {"ip1"}
RetentionPeriods == {0, 1}

---------------------------------------------------------------------------
(* Text *)

IsSpace(c) == c \in {" ", "\n", "\t"}

Lower(c) ==
  CASE c = "A" -> "a"
    [] c = "J" -> "j"
    [] c = "M" -> "m"
    [] c = "H" -> "h"
    [] OTHER -> c

RECURSIVE TrimStart(_)
TrimStart(s) ==
  IF s # <<>> /\ IsSpace(Head(s)) THEN TrimStart(Tail(s)) ELSE s

RECURSIVE TrimEnd(_)
TrimEnd(s) ==
  IF s # <<>> /\ IsSpace(s[Len(s)]) THEN TrimEnd(SubSeq(s, 1, Len(s) - 1)) ELSE s

Trim(s) == TrimEnd(TrimStart(s))

StartsWithCI(s, pat) ==
  /\ Len(s) >= Len(pat)
  /\ \A i \in 1..Len(pat) : Lower(s[i]) = pat[i]

\* s.replace(/pat/gi, '') for a literal pattern: one left-to-right pass
RECURSIVE RemoveAllCI(_, _)
RemoveAllCI(s, pat) ==
  IF s = <<>> THEN <<>>
  ELSE IF StartsWithCI(s, pat) THEN RemoveAllCI(SubSeq(s, Len(pat) + 1, Len(s)), pat)
  ELSE <<Head(s)>> \o RemoveAllCI(Tail(s), pat)

JavascriptColon == <<"j", "a", "v", "a", "s", "c", "r", "i", "p", "t", ":">>

\* The <script>, <iframe> and on*= patterns need "<" or "=", which no text of
\* the model holds: those three replacements leave every text here as it is.
SanitizeString(s) == Trim(RemoveAllCI(s, JavascriptColon))

SanitizeObject(obj) == [k \in DOMAIN obj |-> SanitizeString(obj[k])]

---------------------------------------------------------------------------
(* bodySchema *)

Normal == <<"n", "o", "r", "m", "a", "l">>
Urgent == <<"u", "r", "g", "e", "n", "t">>

MinName == 2
MinTopic == 3
MinMessage == 10

Min(a, b) == IF a <= b THEN a ELSE b

Count(s, c) == Cardinality({i \in 1..Len(s) : s[i] = c})

\* z.string().email(): one "@" after a non-empty local part, then labels and
\* a top-level label of two characters or more; no white space
IsEmail(s) ==
  /\ \A i \in 1..Len(s) : ~IsSpace(s[i])
  /\ Count(s, "@") = 1
  /\ s[1] # "@" /\ s[1] # "."
  /\ \E j \in 1..Len(s) :
       /\ s[j] = "."
       /\ j >= 3 /\ s[j - 1] # "@" /\ s[j - 1] # "."
       /\ \E a \in 1..(j - 2) : s[a] = "@"
       /\ Len(s) - j >= 2
       /\ \A k \in (j + 1)..Len(s) : s[k] # "."

Has(obj, k) == k \in DOMAIN obj

FieldOk(obj, k) ==
  /\ Has(obj, k)
  /\ CASE k = "name" -> Len(obj[k]) >= MinName
       [] k = "email" -> IsEmail(obj[k])
       [] k = "topic" -> Len(obj[k]) >= MinTopic
       [] k = "message" -> Len(obj[k]) >= MinMessage
       [] k = "urgency" -> obj[k] \in {Normal, Urgent}

Fields == {"name", "email", "topic", "message", "urgency"}

SafeParseSuccess(obj) == \A k \in Fields : FieldOk(obj, k)

\* parsed.data: the five fields (an object schema drops other keys)
ParsedData(obj) == [k \in Fields |-> obj[k]]

---------------------------------------------------------------------------
(* Request bodies the clients send *)

Ada == <<"A", "d", "a">>
AdaMail == <<"a", "@", "b", ".", "c", "o">>
MockTopic == <<"M", "o", "c", "k">>
HelpMessage == <<"H", "e", "l", "p", " ", "m", "e", " ", "p", "l", "s">>

ValidPayload ==
  [name |-> Ada, email |-> AdaMail, topic |-> MockTopic,
   message |-> HelpMessage, urgency |-> Normal]

\* every field within its constraint; the name has white space around it
PaddedPayload == [ValidPayload EXCEPT !.name = <<" ">> \o Ada \o <<" ">>, !.urgency = Urgent]

\* a two-character name that is one letter and a blank
BlankNamePayload == [ValidPayload EXCEPT !.name = <<"a", " ">>]

\* a topic of thirteen characters, eleven of them "javascript:"
ScriptTopicPayload == [ValidPayload EXCEPT !.topic = JavascriptColon \o <<"a", "b">>]

\* an email followed by a blank
BlankMailPayload == [ValidPayload EXCEPT !.email = AdaMail \o <<" ">>]

\* a message of four characters
ShortPayload == [ValidPayload EXCEPT !.message = <<"H", "e", "l", "p">>]

\* the empty object {}
EmptyPayload == [k \in {} |-> <<>>]

\* a name that holds a double quote
QuotedPayload == [ValidPayload EXCEPT !.name = <<"A", "d", "\"", "a">>, !.urgency = Urgent]

\* a message of two lines
NewlinePayload ==
  [ValidPayload EXCEPT !.message = <<"H", "e", "l", "p", "\n", "m", "e", " ", "p", "l", "s">>]

\* the bodies sent before an export
ExportPayloads == {ValidPayload, QuotedPayload, NewlinePayload}

\* the bodies sent before the statistics are asked for
StatsPayloads == {ValidPayload, PaddedPayload}

\* the bodies sent while another request is in flight
OverlapPayloads == {ValidPayload, PaddedPayload}

Payloads ==
  {ValidPayload, PaddedPayload, BlankNamePayload, ScriptTopicPayload,
   BlankMailPayload, ShortPayload, EmptyPayload}

---------------------------------------------------------------------------
(* JSON files *)

\* JSON.stringify, then what JSON.parse makes of the text: the values written
\* here are arrays and objects of strings and integers (createdAt is already
\* the string toISOString gave), which JSON carries unchanged
JSONStringify(value) == [kind |-> "json", value |-> value]

\* the text of a JSON object that is no array, such as {}
ObjectText == [kind |-> "object", value |-> <<>>]

\* a text that is no JSON
GarbageText == [kind |-> "garbage", value |-> <<>>]

\* what a file holds between the open of fs.writeFile (flag 'w' truncates it)
\* and the end of its writes: nothing, or a proper prefix of the new text
TornTexts == {[kind |-> "empty", value |-> <<>>], [kind |-> "prefix", value |-> <<>>]}

\* JSON.parse(text) returns
JSONParses(text) == text.kind \in {"json", "object"}

JSONParse(text) == text.value

UuidBytes == 36
IsoBytes == 24

\* one queue record in JSON.stringify(queue, null, 2): seven "key": value
\* lines at indent 4 between "  {" and "  }"
\* a string value between its quotes: JSON.stringify writes a double quote, a
\* backslash, a line feed and a tab as two characters
StringBytes(s) == Len(s) + Count(s, "\"") + Count(s, "\\") + Count(s, "\n") + Count(s, "\t")

\* the line of key k, if the record has it
LineBytes(r, k, keyBytes, valueBytes) ==
  IF Has(r, k) THEN 4 + keyBytes + 2 + valueBytes + 2 + 1 ELSE 0

RecordBytes(r) ==
  4 + 3 + (Cardinality(DOMAIN r) - 1)
  + LineBytes(r, "name", 6, IF Has(r, "name") THEN StringBytes(r.name) ELSE 0)
  + LineBytes(r, "email", 7, IF Has(r, "email") THEN Len(r.email) ELSE 0)
  + LineBytes(r, "topic", 7, IF Has(r, "topic") THEN StringBytes(r.topic) ELSE 0)
  + LineBytes(r, "message", 9, IF Has(r, "message") THEN StringBytes(r.message) ELSE 0)
  + LineBytes(r, "urgency", 9, IF Has(r, "urgency") THEN Len(r.urgency) ELSE 0)
  + LineBytes(r, "id", 4, UuidBytes)
  + LineBytes(r, "createdAt", 11, IsoBytes)

RECURSIVE QueueBytes(_)
QueueBytes(q) ==
  IF q = <<>> THEN 0 ELSE RecordBytes(Head(q)) + 2 + QueueBytes(Tail(q))

\* stats.size of the queue file
FileSize(text) ==
  IF JSONParse(text) = <<>> THEN 2 ELSE 2 + QueueBytes(JSONParse(text))

EmptyQueueText == JSONStringify(<<>>)

---------------------------------------------------------------------------
(* Rate limiting *)

GeneralWindowMs == 900000
GeneralMax == 100
SupportWindowMs == 15 * 60 * 1000
SupportMax == 5
AdminWindowMs == 5 * 60 * 1000
AdminMax == 20

NoLimitEntry == [count |-> 0, resetTime |-> 0]

\* MemoryRateLimitStore.get: the entry if there is one and it has not expired
StoreGet(store, key, t) ==
  IF store[key].count > 0 /\ t < store[key].resetTime THEN store[key] ELSE NoLimitEntry

\* MemoryRateLimitStore.increment
StoreIncrement(store, key, windowMs, t) ==
  IF StoreGet(store, key, t).count > 0
    THEN [store EXCEPT ![key].count = @ + 1]
    ELSE [store EXCEPT ![key] = [count |-> 1, resetTime |-> t + windowMs]]

GenerateKey(ip) == ip

\* the store after generalRateLimit and then the route's own limiter have
\* counted one request (the second does not run when the first answers 429)
Limiters(store, ip, windowMs, max, t) ==
  LET s1 == StoreIncrement(store, GenerateKey(ip), GeneralWindowMs, t)
      general == s1[GenerateKey(ip)].count > GeneralMax
      s2 == IF general THEN s1 ELSE StoreIncrement(s1, GenerateKey(ip), windowMs, t)
  IN  [store |-> s2, limited |-> general \/ s2[GenerateKey(ip)].count > max]

---------------------------------------------------------------------------
(* Tasks: the requests in flight, two at most.  A task holds its handler's  *)
(* locals and the await it stands at; an answered task keeps its request    *)
(* and response until the next request takes its place.                     *)

Tasks == {"t1", "t2"}

NoEntry == [id |-> 0]
NoName == <<"", 0>>

\* no request options
NoOptions ==
  [format |-> "none", dateRange |-> <<>>, urgencyFilter |-> <<>>,
   includeMetadata |-> FALSE, keepCount |-> 0]

IdleTask ==
  [op |-> "none", pc |-> "idle", proc |-> "p1", sent |-> EmptyPayload,
   ctx |-> "none", entry |-> NoEntry, queue |-> <<>>, arg |-> NoName,
   data |-> <<>>, filtered |-> <<>>, size |-> 0, filename |-> NoName, status |-> 0,
   opts |-> NoOptions, phase |-> "none", result |-> <<>>]

Idle(t) == task[t].pc \in {"idle", "done"}

\* a request takes the first free task
Free(t) == Idle(t) /\ (t = "t2" => ~Idle("t1"))

Begin(op, p) == [IdleTask EXCEPT !.op = op, !.proc = p]

Respond(rec, code) ==
  [rec EXCEPT !.pc = "done", !.status = code, !.ctx = "none", !.size = 0]

\* requests per client and process the model lets in
Admitted(p, ip) == rateLimitStore[p][ip].count < 2 * MaxRequests

---------------------------------------------------------------------------
(* Backup files *)

LegacyName == <<"support-queue-backup-legacy.json", 0>>
BrokenName == <<"support-queue-backup-broken.json", 0>>
MissingName == <<"support-queue-backup-missing.json", 0>>

\* a JSON object that has no data array
LegacyText == JSONStringify([metadata |-> [timestamp |-> 0 - 2, totalRequests |-> 0,
                                            fileSize |-> 2, version |-> "0.9"]])

\* a backup one of whose records has no email
BrokenText ==
  JSONStringify([metadata |-> [timestamp |-> 0 - 1, totalRequests |-> 1,
                               fileSize |-> 2, version |-> "1.0"],
                 data |-> <<[id |-> 9, name |-> Ada, topic |-> MockTopic,
                             message |-> HelpMessage]>>])

PartialName == <<"support-queue-backup-partial.json", 0>>

\* a backup whose record has the five fields restoreFromBackup asks for, and
\* neither urgency nor createdAt
PartialText ==
  JSONStringify([metadata |-> [timestamp |-> 0 - 3, totalRequests |-> 1,
                               fileSize |-> 2, version |-> "0.9"],
                 data |-> <<[id |-> 8, name |-> Ada, email |-> AdaMail, topic |-> MockTopic,
                             message |-> HelpMessage]>>])

\* files named as backups are: one that holds no JSON, one that holds {}
GarbageName == <<"support-queue-backup-garbage.json", 0>>
NoMetaName == <<"support-queue-backup-nometa.json", 0>>

MiscountName == <<"support-queue-backup-miscount.json", 0>>

\* a backup of whole records whose metadata counts one record more than its
\* data holds
MiscountText ==
  JSONStringify([metadata |-> [timestamp |-> 0 - 4, totalRequests |-> 2,
                               fileSize |-> 2, version |-> "1.0"],
                 data |-> <<[id |-> 7, name |-> Ada, email |-> AdaMail, topic |-> MockTopic,
                             message |-> HelpMessage, urgency |-> Normal,
                             createdAt |-> 0 - 4]>>])

\* `support-queue-backup-${new Date().toISOString()...}.json`: one name per millisecond
GenerateBackupFilename(t) == <<"support-queue-backup-", t>>

BackupNames == {GenerateBackupFilename(t) : t \in 0..MaxTime}

Exists(dir, name) == name \in DOMAIN dir

WriteInto(dir, name, text) ==
  [n \in DOMAIN dir \cup {name} |-> IF n = name THEN text ELSE dir[n]]

\* backupData of createBackup for a queue that is an object: JSON.stringify
\* leaves out totalRequests, which is undefined
ObjectBackupData(size, t) ==
  [metadata |-> [timestamp |-> t, fileSize |-> size, version |-> "1.0"],
   data |-> ObjectText]

\* backupData of createBackup
BackupData(queue, size, t) ==
  [metadata |-> [timestamp |-> t, totalRequests |-> Len(queue),
                 fileSize |-> size, version |-> "1.0"],
   data |-> queue]

Falsy(item, k) == ~Has(item, k) \/ (k # "id" /\ item[k] = <<>>)

RequiredFields == {"id", "name", "email", "topic", "message"}

\* the checks of restoreFromBackup on the backup file it was given
HasDataArray(value) == Has(value, "data")

\* as AllItemsComplete, looking at the id alone
AllItemsHaveId(value) ==
  \A i \in 1..Len(value.data) : ~Falsy(value.data[i], "id")

AllItemsComplete(value) ==
  \A i \in 1..Len(value.data) : \A k \in RequiredFields : ~Falsy(value.data[i], k)

Restorable(dir, name) ==
  /\ Exists(dir, name)
  /\ JSONParses(dir[name])
  /\ HasDataArray(JSONParse(dir[name]))
  /\ AllItemsComplete(JSONParse(dir[name]))

---------------------------------------------------------------------------
(* Initial state: no queue file yet, two files a former release or an       *)
(* operator left in the backup directory                                    *)

Init ==
  /\ queueFile = [exists |-> FALSE, text |-> EmptyQueueText]
  /\ backupDir = WriteInto(WriteInto(<<>>, LegacyName, LegacyText), BrokenName, BrokenText)
  /\ now = 0
  /\ nextUuid = 0
  /\ rateLimitStore = [p \in Procs |-> [ip \in IPs |-> NoLimitEntry]]
  /\ retentionPeriod \in RetentionPeriods
  /\ task = [t \in Tasks |-> IdleTask]
  /\ made = {}
  /\ submitted = <<>>
  /\ exportDir = <<>>
  /\ backupInterval = 0
  /\ timers = {}
  /\ timerSeq = 0

Tick ==
  /\ now < MaxTime
  /\ now' = now + 1
  /\ UNCHANGED <<queueFile, backupDir, nextUuid, rateLimitStore, retentionPeriod, task, made, submitted,
               exportDir, backupInterval, timers, timerSeq>>

---------------------------------------------------------------------------
(* POST /support *)

\* entry = {...parsed.data, id: randomUUID(), createdAt: new Date().toISOString()}
NewEntry(data, uuid, t) ==
  [name |-> data.name, email |-> data.email, topic |-> data.topic,
   message |-> data.message, urgency |-> data.urgency, id |-> uuid, createdAt |-> t]

\* as RandomUUID, returning one id every time
RandomUUIDFixed(n) == 1

\* randomUUID(): an id no earlier call returned
RandomUUID(n) == n + 1

\* as Handle, checking the name alone
HandleNameOnly(rec, body, uuid, t) ==
  IF ~FieldOk(body, "name") THEN Respond(rec, 400)
  ELSE [rec EXCEPT !.pc = "a_ensure", !.ctx = "append",
                   !.entry = NewEntry(ParsedData(body), uuid, t)]

\* what the handler does with req.body up to its first await
Handle(rec, body, uuid, t) ==
  IF ~SafeParseSuccess(body) THEN Respond(rec, 400)
  ELSE [rec EXCEPT !.pc = "a_ensure", !.ctx = "append",
                   !.entry = NewEntry(ParsedData(body), uuid, t)]

\* the middleware chain and the handler up to its first await
Submit(t, procs, payloads) ==
  \E p \in procs, ip \in IPs, sent \in payloads :
    LET lim == Limiters(rateLimitStore[p], ip, SupportWindowMs, SupportMax, now)
        rec == [Begin("submit", p) EXCEPT !.sent = sent]
        next == IF lim.limited THEN Respond(rec, 429)
                ELSE Handle(rec, SanitizeObject(sent), RandomUUID(nextUuid), now)
    IN  /\ Free(t)
        /\ Admitted(p, ip)
        /\ next.pc # "done" => nextUuid < MaxUuid
        /\ rateLimitStore' = [rateLimitStore EXCEPT ![p] = lim.store]
        /\ nextUuid' = IF next.pc # "done" THEN nextUuid + 1 ELSE nextUuid
        /\ task' = [task EXCEPT ![t] = next]
        /\ submitted' = IF next.pc # "done" THEN Append(submitted, next.entry) ELSE submitted
        /\ UNCHANGED <<queueFile, backupDir, now, retentionPeriod, made,
               exportDir, backupInterval, timers, timerSeq>>

---------------------------------------------------------------------------
(* export.ts: filters, file names, renderings, statistics *)

MsPerDay == 24 * 60 * 60 * 1000

\* date.toISOString().split('T')[0]: the day a time falls on
DayOf(t) == t \div MsPerDay

\* `support-requests-export-${timestamp}`, then the days of the date range,
\* then the urgency filter, then the format
GenerateExportFilename(t, options) ==
  <<"support-requests-export-", t,
    IF options.dateRange # <<>>
      THEN <<DayOf(options.dateRange[1]), DayOf(options.dateRange[2])>> ELSE <<>>,
    options.urgencyFilter, options.format>>

\* the date range filter of filterRequests
RECURSIVE InRange(_, _, _)
InRange(requests, start, end) ==
  IF requests = <<>> THEN <<>>
  ELSE IF Has(Head(requests), "createdAt")
          /\ Head(requests).createdAt >= start /\ Head(requests).createdAt <= end
    THEN <<Head(requests)>> \o InRange(Tail(requests), start, end)
    ELSE InRange(Tail(requests), start, end)

\* the urgency filter of filterRequests
RECURSIVE OfUrgency(_, _)
OfUrgency(requests, urgency) ==
  IF requests = <<>> THEN <<>>
  ELSE IF Has(Head(requests), "urgency") /\ Head(requests).urgency = urgency
    THEN <<Head(requests)>> \o OfUrgency(Tail(requests), urgency)
    ELSE OfUrgency(Tail(requests), urgency)

\* as FilterRequests, the bounds of the date range left out
FilterExclusive(requests, options) ==
  LET byDate == IF options.dateRange # <<>>
                  THEN InRange(requests, options.dateRange[1] + 1, options.dateRange[2] - 1)
                  ELSE requests
  IN  IF options.urgencyFilter # <<>> THEN OfUrgency(byDate, options.urgencyFilter)
      ELSE byDate

\* filterRequests
FilterRequests(requests, options) ==
  LET byDate == IF options.dateRange # <<>>
                  THEN InRange(requests, options.dateRange[1], options.dateRange[2])
                  ELSE requests
  IN  IF options.urgencyFilter # <<>> THEN OfUrgency(byDate, options.urgencyFilter)
      ELSE byDate

\* exportData of exportToJson; a key whose value is undefined is not written
ExportData(requests, options, t) ==
  IF options.includeMetadata
    THEN [metadata |-> [exportDate |-> t, totalRecords |-> Len(requests),
                        format |-> "json", version |-> "1.0",
                        filters |-> [dateRange |-> options.dateRange,
                                     urgency |-> options.urgencyFilter]],
          data |-> requests]
    ELSE [data |-> requests]

Digits == <<"0", "1", "2", "3", "4", "5", "6", "7", "8", "9">>

Digit(n) == Digits[n + 1]

Zeros(k) == [i \in 1..k |-> "0"]

\* the text of id n, in the layout of randomUUID
IdText(n) ==
  Zeros(8) \o <<"-">> \o Zeros(4) \o <<"-", "4">> \o Zeros(3) \o <<"-", "8">> \o Zeros(3)
    \o <<"-">> \o Zeros(11) \o <<Digit(n)>>

\* toISOString of a time within the first ten milliseconds
IsoText(t) ==
  <<"1", "9", "7", "0", "-", "0", "1", "-", "0", "1", "T", "0", "0", ":", "0", "0", ":", "0", "0", ".", "0", "0">> \o <<Digit(t), "Z">>

\* as EscapeQuotes, leaving the text as it is
EscapeNothing(s) == s

\* .replace(/"/g, '""')
RECURSIVE EscapeQuotes(_)
EscapeQuotes(s) ==
  IF s = <<>> THEN <<>>
  ELSE IF Head(s) = "\"" THEN <<"\"", "\"">> \o EscapeQuotes(Tail(s))
  ELSE <<Head(s)>> \o EscapeQuotes(Tail(s))

\* `"${...}"`
Quoted(s) == <<"\"">> \o EscapeQuotes(s) \o <<"\"">>

\* array.join(sep)
RECURSIVE Join(_, _)
Join(parts, sep) ==
  IF parts = <<>> THEN <<>>
  ELSE IF Len(parts) = 1 THEN parts[1]
  ELSE parts[1] \o sep \o Join(Tail(parts), sep)

CsvHeaders ==
  <<<<"I", "D">>, <<"N", "a", "m", "e">>, <<"E", "m", "a", "i", "l">>, <<"T", "o", "p", "i", "c">>, <<"M", "e", "s", "s", "a", "g", "e">>, <<"U", "r", "g", "e", "n", "c", "y">>, <<"C", "r", "e", "a", "t", "e", "d", " ", "A", "t">>>>

\* the row of one record
CsvRow(request) ==
  <<IdText(request.id), Quoted(request.name), request.email, Quoted(request.topic),
    Quoted(request.message), request.urgency, IsoText(request.createdAt)>>

\* csvContent of exportToCsv; the empty text for no record
CsvContent(requests) ==
  IF requests = <<>> THEN <<>>
  ELSE Join([i \in 1..(Len(requests) + 1) |->
               Join(IF i = 1 THEN CsvHeaders ELSE CsvRow(requests[i - 1]), <<",">>)],
            <<"\n">>)

\* the metadata block of JSON.stringify(exportData, null, 2), line by line
MetadataBytes(metadata) ==
  16 + (4 + 12 + 2 + IsoBytes + 2 + 2)
  + (4 + 14 + 2 + (IF metadata.totalRecords < 10 THEN 1 ELSE 2) + 2)
  + 22 + 22 + 17
  + (IF metadata.filters.dateRange = <<>> THEN 25
     ELSE 21 + (8 + 7 + 2 + IsoBytes + 2 + 2) + (8 + 5 + 2 + IsoBytes + 2 + 1) + 9)
  + (IF metadata.filters.urgency = <<>> THEN 22
     ELSE 6 + 9 + 2 + Len(metadata.filters.urgency) + 2 + 1)
  + 6 + 5

\* the records of the data array, two columns further in than in the queue file
RECURSIVE DataBytes(_)
DataBytes(requests) ==
  IF requests = <<>> THEN 0
  ELSE RecordBytes(Head(requests)) + 18 + (IF Len(requests) = 1 THEN 1 ELSE 2)
       + DataBytes(Tail(requests))

\* stats.size of an export file
ExportBytes(text) ==
  IF text.kind = "csv" THEN Len(text.value)
  ELSE 2 + (IF Has(text.value, "metadata") THEN MetadataBytes(text.value.metadata) ELSE 0)
       + (IF text.value.data = <<>> THEN 13 ELSE 12 + DataBytes(text.value.data) + 4)
       + 1

\* as CountUrgency, counting every record
CountAll(requests, urgency) == Len(requests)

\* requests.filter(r => r.urgency === urgency).length
CountUrgency(requests, urgency) ==
  Cardinality({i \in 1..Len(requests) :
                 Has(requests[i], "urgency") /\ requests[i].urgency = urgency})

\* new Date(r.createdAt): <<t>>, or <<>> for the invalid date of a record
\* without createdAt
DateOf(request) == IF Has(request, "createdAt") THEN <<request.createdAt>> ELSE <<>>

\* a.getTime() - b.getTime() < 0; the difference with an invalid date is NaN,
\* which sort takes for 0
Before(a, b) == a # <<>> /\ b # <<>> /\ a[1] - b[1] < 0

RECURSIVE InsertDate(_, _)
InsertDate(sorted, x) ==
  IF sorted = <<>> THEN <<x>>
  ELSE IF Before(x, sorted[Len(sorted)])
    THEN Append(InsertDate(SubSeq(sorted, 1, Len(sorted) - 1), x), sorted[Len(sorted)])
    ELSE Append(sorted, x)

\* requests.map(r => new Date(r.createdAt)).sort((a, b) => a.getTime() - b.getTime())
RECURSIVE SortedDates(_)
SortedDates(requests) ==
  IF requests = <<>> THEN <<>>
  ELSE InsertDate(SortedDates(SubSeq(requests, 1, Len(requests) - 1)),
                  DateOf(requests[Len(requests)]))

\* toISOString of an invalid date throws
StatsThrows(requests) ==
  /\ requests # <<>>
  /\ \/ SortedDates(requests)[1] = <<>>
     \/ SortedDates(requests)[Len(requests)] = <<>>

\* request.topic.toLowerCase().trim()
TopicKey(request) == Trim([i \in 1..Len(request.topic) |-> Lower(request.topic[i])])

\* how often key k was counted
Tally(keys, k) == Cardinality({i \in 1..Len(keys) : keys[i] = k})

\* the keys of a count table, in the order in which they were first set
RECURSIVE Distinct(_)
Distinct(keys) ==
  IF keys = <<>> THEN <<>>
  ELSE LET before == Distinct(SubSeq(keys, 1, Len(keys) - 1))
       IN  IF \E i \in 1..Len(before) : before[i] = keys[Len(keys)] THEN before
           ELSE Append(before, keys[Len(keys)])

\* x goes behind every entry whose count is not below its own
RECURSIVE InsertByCount(_, _)
InsertByCount(sorted, x) ==
  IF sorted = <<>> THEN <<x>>
  ELSE IF x.count - sorted[Len(sorted)].count > 0
    THEN Append(InsertByCount(SubSeq(sorted, 1, Len(sorted) - 1), x), sorted[Len(sorted)])
    ELSE Append(sorted, x)

\* .sort((a, b) => b.count - a.count)
RECURSIVE SortByCount(_)
SortByCount(entries) ==
  IF entries = <<>> THEN <<>>
  ELSE InsertByCount(SortByCount(SubSeq(entries, 1, Len(entries) - 1)), entries[Len(entries)])

TopTopicsLimit == 10

\* Object.entries(topicCounts) sorted by count, the first ten
TopTopics(requests) ==
  LET topics == [i \in 1..Len(requests) |-> TopicKey(requests[i])]
      keys == Distinct(topics)
      sorted == SortByCount([i \in 1..Len(keys) |->
                               [topic |-> keys[i], count |-> Tally(topics, keys[i])]])
  IN  SubSeq(sorted, 1, Min(Len(sorted), TopTopicsLimit))

\* `${date.getFullYear()}-${month}` for a time in January 1970; <<>> for the
\* "NaN-NaN" of an invalid date
MonthKey(request) ==
  IF Has(request, "createdAt") THEN <<1970, 1 + (DayOf(request.createdAt) \div 31)>>
  ELSE <<>>

\* a.localeCompare(b) < 0: digits come before letters
MonthBefore(a, b) ==
  IF a = <<>> THEN FALSE
  ELSE b = <<>> \/ a[2] < b[2]

RECURSIVE InsertByMonth(_, _)
InsertByMonth(sorted, x) ==
  IF sorted = <<>> THEN <<x>>
  ELSE IF MonthBefore(x.month, sorted[Len(sorted)].month)
    THEN Append(InsertByMonth(SubSeq(sorted, 1, Len(sorted) - 1), x), sorted[Len(sorted)])
    ELSE Append(sorted, x)

\* .sort((a, b) => a.month.localeCompare(b.month))
RECURSIVE SortByMonth(_)
SortByMonth(entries) ==
  IF entries = <<>> THEN <<>>
  ELSE InsertByMonth(SortByMonth(SubSeq(entries, 1, Len(entries) - 1)), entries[Len(entries)])

\* Object.entries(monthCounts) sorted by month
RequestsByMonth(requests) ==
  LET months == [i \in 1..Len(requests) |-> MonthKey(requests[i])]
      keys == Distinct(months)
  IN  SortByMonth([i \in 1..Len(keys) |->
                     [month |-> keys[i], count |-> Tally(months, keys[i])]])

\* what generateExportStats returns
ExportStats(requests) ==
  IF requests = <<>>
    THEN [totalRequests |-> 0, urgentRequests |-> 0, normalRequests |-> 0,
          dateRange |-> [earliest |-> <<>>, latest |-> <<>>],
          topTopics |-> <<>>, requestsByMonth |-> <<>>]
    ELSE [totalRequests |-> Len(requests),
          urgentRequests |-> CountUrgency(requests, Urgent),
          normalRequests |-> CountUrgency(requests, Normal),
          dateRange |-> [earliest |-> SortedDates(requests)[1],
                         latest |-> SortedDates(requests)[Len(requests)]],
          topTopics |-> TopTopics(requests),
          requestsByMonth |-> RequestsByMonth(requests)]

---------------------------------------------------------------------------
(* queue.ts *)

\* as EnsureFile, going on to the write of '[]' whether the file is there or not
EnsureFileAlways(t) ==
  /\ task[t].pc \in {"a_ensure", "q_ensure"}
  /\ task' = [task EXCEPT ![t].pc = IF task[t].pc = "a_ensure" THEN "a_init" ELSE "q_init"]
  /\ UNCHANGED <<queueFile, backupDir, now, nextUuid, rateLimitStore, retentionPeriod, made,
               submitted, exportDir, backupInterval, timers, timerSeq>>

\* ensureFile up to its access(): on to the write of '[]' when the file is absent
EnsureFile(t) ==
  /\ task[t].pc \in {"a_ensure", "q_ensure"}
  /\ task' = [task EXCEPT ![t].pc =
       IF queueFile.exists
         THEN (IF task[t].pc = "a_ensure" THEN "q_ensure" ELSE "q_read")
         ELSE (IF task[t].pc = "a_ensure" THEN "a_init" ELSE "q_init")]
  /\ UNCHANGED <<queueFile, backupDir, now, nextUuid, rateLimitStore, retentionPeriod, made, submitted,
               exportDir, backupInterval, timers, timerSeq>>

\* ensureFile's writeFile(filePath, '[]')
EnsureFileInit(t) ==
  /\ task[t].pc \in {"a_init", "q_init"}
  /\ queueFile' = [exists |-> TRUE, text |-> EmptyQueueText]
  /\ task' = [task EXCEPT ![t].pc = IF task[t].pc = "a_init" THEN "q_ensure" ELSE "q_read"]
  /\ UNCHANGED <<backupDir, now, nextUuid, rateLimitStore, retentionPeriod, made, submitted,
               exportDir, backupInterval, timers, timerSeq>>

\* as KeptAfter, keeping the record created at the cutoff as well
RECURSIVE KeptFrom(_, _)
KeptFrom(queue, cutoff) ==
  IF queue = <<>> THEN <<>>
  ELSE IF Has(Head(queue), "createdAt") /\ Head(queue).createdAt >= cutoff
    THEN <<Head(queue)>> \o KeptFrom(Tail(queue), cutoff)
    ELSE KeptFrom(Tail(queue), cutoff)

\* queue.filter(request => new Date(request.createdAt) > cutoffDate)
RECURSIVE KeptAfter(_, _)
KeptAfter(queue, cutoff) ==
  IF queue = <<>> THEN <<>>
  ELSE IF Has(Head(queue), "createdAt") /\ Head(queue).createdAt > cutoff
    THEN <<Head(queue)>> \o KeptAfter(Tail(queue), cutoff)
    ELSE KeptAfter(Tail(queue), cutoff)

\* as CutoffDate, forgetting the retention period
CutoffNow(t, period) == t

\* cutoffDate.getTime() - storageConfig.retentionPeriod
CutoffDate(t, period) == t - period

\* as Push, dropping what was read
PushAlone(queue, entry) == <<entry>>

\* queue.push(entry)
Push(queue, entry) == Append(queue, entry)

\* as Retain, going on to the write without createBackup
RetainNoBackup(rec, queue, t, period) ==
  LET filteredQueue == KeptAfter(queue, CutoffDate(t, period))
      removedCount == Len(queue) - Len(filteredQueue)
  IN  IF removedCount > 0
        THEN [rec EXCEPT !.queue = queue, !.filtered = filteredQueue, !.pc = "t_write"]
        ELSE Respond([rec EXCEPT !.queue = queue, !.filtered = filteredQueue], 200)

\* applyDataRetention between its readQueue and its next await
Retain(rec, queue, t, period) ==
  LET filteredQueue == KeptAfter(queue, CutoffDate(t, period))
      removedCount == Len(queue) - Len(filteredQueue)
  IN  IF removedCount > 0
        THEN [rec EXCEPT !.queue = queue, !.filtered = filteredQueue,
                         !.ctx = "backup", !.pc = "q_ensure"]
        ELSE Respond([rec EXCEPT !.queue = queue, !.filtered = filteredQueue], 200)

\* what the caller of readQueue does with the queue before its next await
AfterRead(rec, queue, t, period) ==
  CASE rec.ctx = "append" -> [rec EXCEPT !.queue = Push(queue, rec.entry), !.pc = "a_write"]
    [] rec.ctx = "backup" -> [rec EXCEPT !.queue = queue, !.pc = "b_stat"]
    [] rec.ctx = "retention" -> Retain(rec, queue, t, period)
    [] rec.ctx = "export" ->
         [rec EXCEPT !.queue = queue, !.filtered = FilterRequests(queue, rec.opts),
                     !.filename = GenerateExportFilename(t, rec.opts), !.pc = "x_write"]
    [] rec.ctx = "stats" ->
         IF StatsThrows(queue) THEN Respond([rec EXCEPT !.queue = queue], 500)
         ELSE Respond([rec EXCEPT !.queue = queue, !.result = ExportStats(queue)], 200)

\* readQueue's readFile and JSON.parse
ReadQueue(t) ==
  /\ task[t].pc = "q_read"
  /\ queueFile.exists
  /\ JSONParses(queueFile.text)
  /\ queueFile.text # ObjectText
  /\ task' = [task EXCEPT ![t] =
       AfterRead(task[t], JSONParse(queueFile.text), now, retentionPeriod)]
  /\ UNCHANGED <<queueFile, backupDir, now, nextUuid, rateLimitStore, retentionPeriod, made, submitted,
               exportDir, backupInterval, timers, timerSeq>>

\* readQueue's JSON.parse throws a SyntaxError, which no caller catches for
\* good: securityErrorHandler answers it with 400, the tick's catch logs it
ReadQueueFails(t) ==
  /\ task[t].pc = "q_read"
  /\ queueFile.exists
  /\ ~JSONParses(queueFile.text)
  /\ task' = [task EXCEPT ![t] = Respond(task[t], IF task[t].op = "tick" THEN 500 ELSE 400)]
  /\ UNCHANGED <<queueFile, backupDir, now, nextUuid, rateLimitStore, retentionPeriod, made, submitted,
               exportDir, backupInterval, timers, timerSeq>>

\* readQueue returns what JSON.parse gave, an object as well (the cast checks
\* nothing): appendToQueue's queue.push is a TypeError, createBackup goes on
\* with a queue that has no length
ReadQueueObject(t) ==
  /\ task[t].pc = "q_read"
  /\ task[t].ctx \in {"append", "backup"}
  /\ queueFile.exists
  /\ queueFile.text = ObjectText
  /\ task' = [task EXCEPT ![t] =
       IF task[t].ctx = "append" THEN Respond(task[t], 500)
       ELSE [task[t] EXCEPT !.ctx = "object", !.pc = "b_stat"]]
  /\ UNCHANGED <<queueFile, backupDir, now, nextUuid, rateLimitStore, retentionPeriod, made, submitted,
               exportDir, backupInterval, timers, timerSeq>>

\* fs.writeFile has opened the queue file and not written all of it yet
WriteOpen(t) ==
  /\ task[t].pc \in {"a_init", "q_init", "a_write", "r_write", "t_write"}
  /\ \E text \in TornTexts : queueFile' = [exists |-> TRUE, text |-> text]
  /\ queueFile' # queueFile
  /\ UNCHANGED <<backupDir, now, nextUuid, rateLimitStore, retentionPeriod, task, made, submitted,
               exportDir, backupInterval, timers, timerSeq>>

\* as AppendWrite, reading the file again in the step that writes it
AppendWriteAtomic(t) ==
  /\ task[t].pc = "a_write"
  /\ queueFile' = [exists |-> TRUE,
                   text |-> JSONStringify(Append(JSONParse(queueFile.text), task[t].entry))]
  /\ task' = [task EXCEPT ![t] = Respond(task[t], 201)]
  /\ UNCHANGED <<backupDir, now, nextUuid, rateLimitStore, retentionPeriod, made, submitted,
               exportDir, backupInterval, timers, timerSeq>>

\* appendToQueue's writeFile; the handler then answers 201 with the id
AppendWrite(t) ==
  /\ task[t].pc = "a_write"
  /\ queueFile' = [exists |-> TRUE, text |-> JSONStringify(task[t].queue)]
  /\ task' = [task EXCEPT ![t] = Respond(task[t], 201)]
  /\ UNCHANGED <<backupDir, now, nextUuid, rateLimitStore, retentionPeriod, made, submitted,
               exportDir, backupInterval, timers, timerSeq>>

---------------------------------------------------------------------------
(* backup.ts *)

\* an /admin request through generalRateLimit and adminRateLimit, sent with
\* the admin credentials
AdminWith(t, procs, op, pc, ctx, arg, opts) ==
  \E p \in procs, ip \in IPs :
    LET lim == Limiters(rateLimitStore[p], ip, AdminWindowMs, AdminMax, now)
        rec == Begin(op, p)
    IN  /\ Free(t)
        /\ Admitted(p, ip)
        /\ rateLimitStore' = [rateLimitStore EXCEPT ![p] = lim.store]
        /\ task' = [task EXCEPT ![t] =
             IF lim.limited THEN Respond(rec, 429)
             ELSE [rec EXCEPT !.pc = pc, !.ctx = ctx, !.arg = arg, !.opts = opts]]
        /\ UNCHANGED <<queueFile, backupDir, now, nextUuid, retentionPeriod, made, submitted,
               exportDir, backupInterval, timers, timerSeq>>

Admin(t, procs, op, pc, ctx, arg) == AdminWith(t, procs, op, pc, ctx, arg, NoOptions)

\* POST /admin/backup
AdminBackup(t, procs) == Admin(t, procs, "backup", "q_ensure", "backup", NoName)

RestoreArgs == BackupNames \cup {LegacyName, BrokenName, MissingName}

\* POST /admin/backup/restore
AdminRestoreFrom(t, procs, names) ==
  \E name \in names : Admin(t, procs, "restore", "r_load", "none", name)

AdminRestore(t, procs) == AdminRestoreFrom(t, procs, RestoreArgs)

\* POST /admin/retention/apply
AdminRetention(t, procs) == Admin(t, procs, "retention", "q_ensure", "retention", NoName)

\* createBackup after its stat of the queue file: metadata and file name
BackupStat(t) ==
  /\ task[t].pc = "b_stat"
  /\ task' = [task EXCEPT ![t] =
       [task[t] EXCEPT !.size = FileSize(queueFile.text),
                       !.filename = GenerateBackupFilename(now), !.pc = "b_write"]]
  /\ UNCHANGED <<queueFile, backupDir, now, nextUuid, rateLimitStore, retentionPeriod, made, submitted,
               exportDir, backupInterval, timers, timerSeq>>

\* cleanupOldBackups(30) of the scheduler's tick
TickKeepCount == 30

\* as AfterBackup, the tick going from its createBackup to applyDataRetention
AfterBackupSkipsCleanup(rec) ==
  CASE rec.op = "backup" -> Respond(rec, 201)
    [] rec.op = "restore" -> [rec EXCEPT !.pc = "r_write"]
    [] rec.op = "retention" -> [rec EXCEPT !.pc = "t_write"]
    [] rec.op = "tick" ->
         IF rec.phase = "backup"
           THEN [rec EXCEPT !.phase = "retention", !.ctx = "retention", !.pc = "q_ensure"]
           ELSE [rec EXCEPT !.pc = "t_write"]

\* where the caller of createBackup goes on
AfterBackup(rec) ==
  CASE rec.op = "backup" -> Respond(rec, 201)
    [] rec.op = "restore" -> [rec EXCEPT !.pc = "r_write"]
    [] rec.op = "retention" -> [rec EXCEPT !.pc = "t_write"]
    [] rec.op = "tick" ->
         IF rec.phase = "backup"
           THEN [rec EXCEPT !.pc = "c_list", !.phase = "cleanup",
                            !.opts = [NoOptions EXCEPT !.keepCount = TickKeepCount]]
           ELSE [rec EXCEPT !.pc = "t_write"]

\* as BackupWrite, counting the records of the queue file as it is when the
\* backup is written
BackupWriteRecount(t) ==
  /\ task[t].pc = "b_write"
  /\ backupDir' = WriteInto(backupDir, task[t].filename,
                    JSONStringify([BackupData(task[t].queue, task[t].size, task[t].filename[2])
                      EXCEPT !.metadata.totalRequests = Len(JSONParse(queueFile.text))]))
  /\ made' = IF task[t].op = "backup" THEN {<<task[t].filename, task[t].queue>>} ELSE made
  /\ task' = [task EXCEPT ![t] = AfterBackup(task[t])]
  /\ UNCHANGED <<queueFile, now, nextUuid, rateLimitStore, retentionPeriod, submitted,
               exportDir, backupInterval, timers, timerSeq>>

\* createBackup's writeFile(backupPath, ...)
BackupWrite(t) ==
  /\ task[t].pc = "b_write"
  /\ backupDir' = WriteInto(backupDir, task[t].filename,
                    JSONStringify(IF task[t].ctx = "object"
                      THEN ObjectBackupData(task[t].size, task[t].filename[2])
                      ELSE BackupData(task[t].queue, task[t].size, task[t].filename[2])))
  /\ made' = IF task[t].op = "backup" THEN {<<task[t].filename, task[t].queue>>} ELSE made
  /\ task' = [task EXCEPT ![t] = AfterBackup(task[t])]
  /\ UNCHANGED <<queueFile, now, nextUuid, rateLimitStore, retentionPeriod, submitted,
               exportDir, backupInterval, timers, timerSeq>>

\* as Load, going on to the write without createBackup
LoadNoSafety(rec, dir) ==
  IF ~Restorable(dir, rec.arg) THEN Respond(rec, 500)
  ELSE [rec EXCEPT !.data = JSONParse(dir[rec.arg]).data, !.pc = "r_write"]

\* restoreFromBackup's checks of the backup file; securityErrorHandler answers
\* JSON.parse's SyntaxError with 400, the global error handler the rest with 500
Load(rec, dir) ==
  IF Exists(dir, rec.arg) /\ ~JSONParses(dir[rec.arg]) THEN Respond(rec, 400)
  ELSE IF ~Restorable(dir, rec.arg) THEN Respond(rec, 500)
  ELSE [rec EXCEPT !.data = JSONParse(dir[rec.arg]).data, !.ctx = "backup", !.pc = "q_ensure"]

\* restoreFromBackup up to its createBackup
RestoreLoad(t) ==
  /\ task[t].pc = "r_load"
  /\ task' = [task EXCEPT ![t] = Load(task[t], backupDir)]
  /\ UNCHANGED <<queueFile, backupDir, now, nextUuid, rateLimitStore, retentionPeriod, made, submitted,
               exportDir, backupInterval, timers, timerSeq>>

\* restoreFromBackup's writeFile(queueFile, backupData.data)
RestoreWrite(t) ==
  /\ task[t].pc = "r_write"
  /\ queueFile' = [exists |-> TRUE, text |-> JSONStringify(task[t].data)]
  /\ made' = {}
  /\ task' = [task EXCEPT ![t] = Respond(task[t], 200)]
  /\ UNCHANGED <<backupDir, now, nextUuid, rateLimitStore, retentionPeriod, submitted,
               exportDir, backupInterval, timers, timerSeq>>

\* applyDataRetention's writeFile(queueFile, filteredQueue)
RetentionWrite(t) ==
  /\ task[t].pc = "t_write"
  /\ queueFile' = [exists |-> TRUE, text |-> JSONStringify(task[t].filtered)]
  /\ task' = [task EXCEPT ![t] = Respond(task[t], 200)]
  /\ UNCHANGED <<backupDir, now, nextUuid, rateLimitStore, retentionPeriod, made, submitted,
               exportDir, backupInterval, timers, timerSeq>>

---------------------------------------------------------------------------
(* backup.ts: listBackups, cleanupOldBackups *)

\* file.startsWith('support-queue-backup-') && file.endsWith('.json')
IsBackupFile(name) ==
  name[1] \in {"support-queue-backup-", "support-queue-backup-legacy.json",
               "support-queue-backup-broken.json", "support-queue-backup-missing.json",
               "support-queue-backup-partial.json", "support-queue-backup-miscount.json",
               "support-queue-backup-garbage.json", "support-queue-backup-nometa.json"}

\* the orders in which readdir may return the files of a directory
Orders(dir) ==
  {o \in [1..Cardinality(DOMAIN dir) -> DOMAIN dir] :
     \A i, j \in 1..Cardinality(DOMAIN dir) : i # j => o[i] # o[j]}

\* what listBackups pushes for one file
BackupInfoOf(dir, name) ==
  IF Has(JSONParse(dir[name]), "metadata")
    THEN [filename |-> name, metadata |-> JSONParse(dir[name]).metadata]
    ELSE [filename |-> name]

\* the loop of listBackups over readdir's files: a file that does not parse
\* is left out
RECURSIVE ReadBackups(_, _)
ReadBackups(dir, files) ==
  IF files = <<>> THEN <<>>
  ELSE IF IsBackupFile(Head(files)) /\ JSONParses(dir[Head(files)])
    THEN <<BackupInfoOf(dir, Head(files))>> \o ReadBackups(dir, Tail(files))
    ELSE ReadBackups(dir, Tail(files))

\* the comparator reads metadata.timestamp of both its arguments
SortThrows(backups) ==
  Len(backups) >= 2 /\ \E i \in 1..Len(backups) : ~Has(backups[i], "metadata")

\* as InsertByTimestamp, with the comparator a - b
RECURSIVE InsertOldestFirst(_, _)
InsertOldestFirst(sorted, x) ==
  IF sorted = <<>> THEN <<x>>
  ELSE IF Head(sorted).metadata.timestamp - x.metadata.timestamp > 0
    THEN <<x>> \o sorted
    ELSE <<Head(sorted)>> \o InsertOldestFirst(Tail(sorted), x)

\* x goes before the first element the comparator b - a puts after it
RECURSIVE InsertByTimestamp(_, _)
InsertByTimestamp(sorted, x) ==
  IF sorted = <<>> THEN <<x>>
  ELSE IF x.metadata.timestamp - Head(sorted).metadata.timestamp > 0
    THEN <<x>> \o sorted
    ELSE <<Head(sorted)>> \o InsertByTimestamp(Tail(sorted), x)

\* backups.sort((a, b) => time(b) - time(a)); Array.prototype.sort is stable
RECURSIVE SortNewestFirst(_)
SortNewestFirst(backups) ==
  IF Len(backups) <= 1 THEN backups
  ELSE InsertByTimestamp(SortNewestFirst(SubSeq(backups, 1, Len(backups) - 1)),
                         backups[Len(backups)])

\* GET /admin/backups
AdminList(t, procs) == Admin(t, procs, "list", "l_list", "none", NoName)

\* listBackups, for the order `files` in which readdir returned the directory
ListBackups(t) ==
  /\ task[t].pc = "l_list"
  /\ \E files \in Orders(backupDir) :
       task' = [task EXCEPT ![t] =
         IF SortThrows(ReadBackups(backupDir, files))
           THEN Respond([task[t] EXCEPT !.data = files], 500)
           ELSE Respond([task[t] EXCEPT !.data = files,
                           !.result = SortNewestFirst(ReadBackups(backupDir, files))], 200)]
  /\ UNCHANGED <<queueFile, backupDir, now, nextUuid, rateLimitStore, retentionPeriod, made,
               submitted, exportDir, backupInterval, timers, timerSeq>>

KeepCounts == 0..MaxKeep

\* req.query.keep ? parseInt(req.query.keep, 10) : 10
DefaultKeepCount == 10

\* DELETE /admin/backups/cleanup, with ?keep=k or without
AdminCleanup(t, procs) ==
  \E k \in KeepCounts \cup {DefaultKeepCount} :
    AdminWith(t, procs, "cleanup", "c_list", "none", NoName, [NoOptions EXCEPT !.keepCount = k])

\* as ToDelete, slicing from the other end
ToDeleteNewest(backups, keepCount) ==
  IF Len(backups) <= keepCount THEN <<>>
  ELSE SubSeq(backups, 1, Len(backups) - keepCount)

\* backups.slice(keepCount), unless backups.length <= keepCount
ToDelete(backups, keepCount) ==
  IF Len(backups) <= keepCount THEN <<>>
  ELSE SubSeq(backups, keepCount + 1, Len(backups))

\* the unlink calls that fail: none, or one of them
UnlinkFailures(names) == {{}} \cup {{n} : n \in names}

RemoveFrom(dir, names) == [n \in DOMAIN dir \ names |-> dir[n]]

\* where the caller of cleanupOldBackups goes on
AfterCleanup(rec) ==
  CASE rec.op = "cleanup" -> Respond(rec, 200)
    [] rec.op = "tick" ->
         [rec EXCEPT !.phase = "retention", !.ctx = "retention", !.pc = "q_ensure"]

\* cleanupOldBackups: listBackups, then unlink of every backup past keepCount
CleanupOldBackups(t) ==
  /\ task[t].pc = "c_list"
  /\ \E files \in Orders(backupDir) :
       LET backups == ReadBackups(backupDir, files)
           doomed == ToDelete(SortNewestFirst(backups), task[t].opts.keepCount)
           names == {doomed[i].filename : i \in 1..Len(doomed)}
       IN  IF SortThrows(backups)
             THEN /\ task' = [task EXCEPT ![t] = Respond(task[t], 500)]
                  /\ UNCHANGED backupDir
             ELSE \E failed \in UnlinkFailures(names) :
                    /\ backupDir' = RemoveFrom(backupDir, names \ failed)
                    /\ task' = [task EXCEPT ![t] =
                         AfterCleanup([task[t] EXCEPT !.result =
                           [totalBackups |-> Len(backups),
                            deletedCount |-> Cardinality(names \ failed),
                            failed |-> failed]])]
  /\ UNCHANGED <<queueFile, now, nextUuid, rateLimitStore, retentionPeriod, made,
               submitted, exportDir, backupInterval, timers, timerSeq>>

---------------------------------------------------------------------------
(* backup.ts: the scheduler *)

\* as StartAutomaticBackups, without the test of backupInterval
StartUnguarded ==
  /\ timerSeq < MaxTimers
  /\ backupInterval' = timerSeq + 1
  /\ timers' = timers \cup {timerSeq + 1}
  /\ timerSeq' = timerSeq + 1
  /\ UNCHANGED <<queueFile, backupDir, now, nextUuid, rateLimitStore, retentionPeriod, task,
               made, submitted, exportDir>>

\* startAutomaticBackups: setInterval unless a timer is held
StartAutomaticBackups ==
  /\ backupInterval = 0 => timerSeq < MaxTimers
  /\ IF backupInterval # 0
       THEN UNCHANGED <<backupInterval, timers, timerSeq>>
       ELSE /\ backupInterval' = timerSeq + 1
            /\ timers' = timers \cup {timerSeq + 1}
            /\ timerSeq' = timerSeq + 1
  /\ UNCHANGED <<queueFile, backupDir, now, nextUuid, rateLimitStore, retentionPeriod, task,
               made, submitted, exportDir>>

\* stopAutomaticBackups: clearInterval of the timer held, if any
StopAutomaticBackups ==
  /\ IF backupInterval # 0
       THEN timers' = timers \ {backupInterval} /\ backupInterval' = 0
       ELSE UNCHANGED <<backupInterval, timers>>
  /\ UNCHANGED <<queueFile, backupDir, now, nextUuid, rateLimitStore, retentionPeriod, task,
               made, submitted, exportDir, timerSeq>>

\* an armed timer fires: the callback starts with createBackup
TimerFire(t) ==
  /\ timers # {}
  /\ Free(t)
  /\ task' = [task EXCEPT ![t] =
       [Begin("tick", "p1") EXCEPT !.pc = "q_ensure", !.ctx = "backup", !.phase = "backup"]]
  /\ UNCHANGED <<queueFile, backupDir, now, nextUuid, rateLimitStore, retentionPeriod, made,
               submitted, exportDir, backupInterval, timers, timerSeq>>

\* as TickFails, the error taking the timer down
TickFailsStops(t) ==
  /\ task[t].op = "tick" /\ ~Idle(t)
  /\ task' = [task EXCEPT ![t] = Respond(task[t], 500)]
  /\ timers' = {}
  /\ backupInterval' = 0
  /\ UNCHANGED <<queueFile, backupDir, now, nextUuid, rateLimitStore, retentionPeriod, made,
               submitted, exportDir, timerSeq>>

\* the file operation a tick awaits rejects: the callback's catch logs the
\* error and the callback ends
TickFails(t) ==
  /\ task[t].op = "tick" /\ ~Idle(t)
  /\ task' = [task EXCEPT ![t] = Respond(task[t], 500)]
  /\ UNCHANGED <<queueFile, backupDir, now, nextUuid, rateLimitStore, retentionPeriod, made,
               submitted, exportDir, backupInterval, timers, timerSeq>>

---------------------------------------------------------------------------
(* export.ts: exportSupportRequests, generateExportStats *)

ExportDates == 0..MaxTime

\* no dateRange unless startDate and endDate are both given; the ranges
\* asked for start no later than they end
DateRanges ==
  {<<>>} \cup {r \in {<<a, b>> : a \in ExportDates, b \in ExportDates} : r[1] <= r[2]}

\* the options the route builds from a body that exportSchema accepts;
\* includeMetadata is sent with the json format only and is true by default
ExportOptions ==
  {o \in [format : {"json", "csv"}, dateRange : DateRanges,
          urgencyFilter : {<<>>, Normal, Urgent}, includeMetadata : BOOLEAN, keepCount : {0}] :
     o.format = "csv" => o.includeMetadata}

\* POST /admin/export
AdminExport(t, procs) ==
  /\ Cardinality(DOMAIN exportDir) < MaxExports
  /\ \E options \in ExportOptions :
       AdminWith(t, procs, "export", "q_ensure", "export", NoName, options)

\* GET /admin/export/stats
AdminStats(t, procs) == Admin(t, procs, "stats", "q_ensure", "stats", NoName)

\* exportToJson's or exportToCsv's writeFile(exportPath, ...)
ExportWrite(t) ==
  /\ task[t].pc = "x_write"
  /\ exportDir' = WriteInto(exportDir, task[t].filename,
       IF task[t].opts.format = "json"
         THEN JSONStringify(ExportData(task[t].filtered, task[t].opts, now))
         ELSE [kind |-> "csv", value |-> CsvContent(task[t].filtered)])
  /\ task' = [task EXCEPT ![t].pc = "x_stat"]
  /\ UNCHANGED <<queueFile, backupDir, now, nextUuid, rateLimitStore, retentionPeriod, made,
               submitted, backupInterval, timers, timerSeq>>

\* exportSupportRequests after its stat of the export file: the result
ExportStat(t) ==
  /\ task[t].pc = "x_stat"
  /\ task' = [task EXCEPT ![t] =
       Respond([task[t] EXCEPT !.result =
                  [filename |-> task[t].filename,
                   recordCount |-> Len(task[t].filtered),
                   fileSize |-> ExportBytes(exportDir[task[t].filename]),
                   format |-> task[t].opts.format]], 200)]
  /\ UNCHANGED <<queueFile, backupDir, now, nextUuid, rateLimitStore, retentionPeriod, made,
               submitted, exportDir, backupInterval, timers, timerSeq>>

---------------------------------------------------------------------------
(* Specifications *)

\* a handler's next step past an await
Step(t) ==
  \/ EnsureFile(t)
  \/ EnsureFileInit(t)
  \/ ReadQueue(t)
  \/ AppendWrite(t)
  \/ BackupStat(t)
  \/ BackupWrite(t)
  \/ RestoreLoad(t)
  \/ RestoreWrite(t)
  \/ RetentionWrite(t)

\* One server process; requests overlap: every await of a handler is a point
\* where another handler runs
Next ==
  \/ Tick
  \/ \E t \in Tasks : Submit(t, OneProc, OverlapPayloads)
  \/ \E t \in Tasks : AdminBackup(t, OneProc)
  \/ \E t \in Tasks : AdminRestore(t, OneProc)
  \/ \E t \in Tasks : AdminRetention(t, OneProc)
  \/ \E t \in Tasks : Step(t)

Spec == Init /\ [][Next]_vars

\* One server process, one request at a time: a request starts when no other
\* is in flight
Quiet == \A t \in Tasks : Idle(t)

SeqNext ==
  \/ Tick
  \/ \E t \in Tasks : Quiet /\ Submit(t, OneProc, Payloads)
  \/ \E t \in Tasks : Quiet /\ AdminBackup(t, OneProc)
  \/ \E t \in Tasks : Quiet /\ AdminRestore(t, OneProc)
  \/ \E t \in Tasks : Quiet /\ AdminRetention(t, OneProc)
  \/ \E t \in Tasks : Step(t)

SeqSpec == Init /\ [][SeqNext]_vars

\* One server process taking overlapping support requests and nothing else
AppendNext ==
  \/ Tick
  \/ \E t \in Tasks : Submit(t, OneProc, OverlapPayloads)
  \/ \E t \in Tasks : EnsureFile(t)
  \/ \E t \in Tasks : EnsureFileInit(t)
  \/ \E t \in Tasks : ReadQueue(t)
  \/ \E t \in Tasks : AppendWrite(t)

AppendSpec == Init /\ [][AppendNext]_vars

\* Two server processes on one queue file, each taking support requests
MultiNext ==
  \/ Tick
  \/ \E t \in Tasks : Submit(t, Procs, OverlapPayloads)
  \/ \E t \in Tasks : EnsureFile(t)
  \/ \E t \in Tasks : EnsureFileInit(t)
  \/ \E t \in Tasks : ReadQueue(t)
  \/ \E t \in Tasks : AppendWrite(t)

MultiSpec == Init /\ [][MultiNext]_vars

\* One server process, one request at a time, the requests being those that
\* make, list and delete backups
BackupDirNext ==
  \/ Tick
  \/ \E t \in Tasks : Quiet /\ AdminBackup(t, OneProc)
  \/ \E t \in Tasks : Quiet /\ AdminList(t, OneProc)
  \/ \E t \in Tasks : Quiet /\ AdminCleanup(t, OneProc)
  \/ \E t \in Tasks : EnsureFile(t)
  \/ \E t \in Tasks : EnsureFileInit(t)
  \/ \E t \in Tasks : ReadQueue(t)
  \/ \E t \in Tasks : BackupStat(t)
  \/ \E t \in Tasks : BackupWrite(t)
  \/ \E t \in Tasks : ListBackups(t)
  \/ \E t \in Tasks : CleanupOldBackups(t)

BackupDirSpec == Init /\ [][BackupDirNext]_vars

\* the backup directory holds a backup of a former release, a file that does
\* not parse and a file without metadata
BadBackupInit ==
  /\ queueFile = [exists |-> FALSE, text |-> EmptyQueueText]
  /\ backupDir = WriteInto(WriteInto(WriteInto(<<>>, LegacyName, LegacyText),
                                     GarbageName, GarbageText), NoMetaName, ObjectText)
  /\ now = 0
  /\ nextUuid = 0
  /\ rateLimitStore = [p \in Procs |-> [ip \in IPs |-> NoLimitEntry]]
  /\ retentionPeriod \in RetentionPeriods
  /\ task = [t \in Tasks |-> IdleTask]
  /\ made = {}
  /\ submitted = <<>>
  /\ exportDir = <<>>
  /\ backupInterval = 0
  /\ timers = {}
  /\ timerSeq = 0

BadBackupSpec == BadBackupInit /\ [][BackupDirNext]_vars

\* One server process whose scheduler is started and stopped while support
\* requests come in; a tick starts when nothing else is in flight
SchedulerNext ==
  \/ Tick
  \/ StartAutomaticBackups
  \/ StopAutomaticBackups
  \/ \E t \in Tasks : Quiet /\ TimerFire(t)
  \/ \E t \in Tasks : TickFails(t)
  \/ \E t \in Tasks : Quiet /\ Submit(t, OneProc, {ValidPayload})
  \/ \E t \in Tasks : EnsureFile(t)
  \/ \E t \in Tasks : EnsureFileInit(t)
  \/ \E t \in Tasks : ReadQueue(t)
  \/ \E t \in Tasks : AppendWrite(t)
  \/ \E t \in Tasks : BackupStat(t)
  \/ \E t \in Tasks : BackupWrite(t)
  \/ \E t \in Tasks : CleanupOldBackups(t)
  \/ \E t \in Tasks : RetentionWrite(t)

SchedulerSpec == Init /\ [][SchedulerNext]_vars

\* One server process, one request at a time: support requests and exports
ExportNext ==
  \/ Tick
  \/ \E t \in Tasks : Quiet /\ Submit(t, OneProc, ExportPayloads)
  \/ \E t \in Tasks : Quiet /\ AdminExport(t, OneProc)
  \/ \E t \in Tasks : EnsureFile(t)
  \/ \E t \in Tasks : EnsureFileInit(t)
  \/ \E t \in Tasks : ReadQueue(t)
  \/ \E t \in Tasks : AppendWrite(t)
  \/ \E t \in Tasks : ExportWrite(t)
  \/ \E t \in Tasks : ExportStat(t)

ExportSpec == Init /\ [][ExportNext]_vars

\* the backup directory holds, besides, a backup whose records are not whole
StatsInit ==
  /\ queueFile = [exists |-> FALSE, text |-> EmptyQueueText]
  /\ backupDir = WriteInto(WriteInto(WriteInto(<<>>, LegacyName, LegacyText),
                                     BrokenName, BrokenText), PartialName, PartialText)
  /\ now = 0
  /\ nextUuid = 0
  /\ rateLimitStore = [p \in Procs |-> [ip \in IPs |-> NoLimitEntry]]
  /\ retentionPeriod \in RetentionPeriods
  /\ task = [t \in Tasks |-> IdleTask]
  /\ made = {}
  /\ submitted = <<>>
  /\ exportDir = <<>>
  /\ backupInterval = 0
  /\ timers = {}
  /\ timerSeq = 0

\* One server process, one request at a time: support requests, backups,
\* restores, retention runs and requests for the statistics
StatsNext ==
  \/ Tick
  \/ \E t \in Tasks : Quiet /\ Submit(t, OneProc, StatsPayloads)
  \/ \E t \in Tasks : Quiet /\ AdminBackup(t, OneProc)
  \/ \E t \in Tasks : Quiet /\ AdminRestoreFrom(t, OneProc, BackupNames \cup {PartialName})
  \/ \E t \in Tasks : Quiet /\ AdminRetention(t, OneProc)
  \/ \E t \in Tasks : Quiet /\ AdminStats(t, OneProc)
  \/ \E t \in Tasks : Step(t)

StatsSpec == StatsInit /\ [][StatsNext]_vars

\* One server process, one request at a time, every request a POST /support
\* with a valid payload
RateNext ==
  \/ Tick
  \/ \E t \in Tasks : Quiet /\ Submit(t, OneProc, OverlapPayloads)
  \/ \E t \in Tasks : EnsureFile(t)
  \/ \E t \in Tasks : EnsureFileInit(t)
  \/ \E t \in Tasks : ReadQueue(t)
  \/ \E t \in Tasks : AppendWrite(t)

RateSpec == Init /\ [][RateNext]_vars

\* the backup directory holds, besides, a backup whose count is wrong
MiscountInit ==
  /\ queueFile = [exists |-> FALSE, text |-> EmptyQueueText]
  /\ backupDir = WriteInto(WriteInto(WriteInto(<<>>, LegacyName, LegacyText),
                                     BrokenName, BrokenText), MiscountName, MiscountText)
  /\ now = 0
  /\ nextUuid = 0
  /\ rateLimitStore = [p \in Procs |-> [ip \in IPs |-> NoLimitEntry]]
  /\ retentionPeriod \in RetentionPeriods
  /\ task = [t \in Tasks |-> IdleTask]
  /\ made = {}
  /\ submitted = <<>>
  /\ exportDir = <<>>
  /\ backupInterval = 0
  /\ timers = {}
  /\ timerSeq = 0

\* One server process, one request at a time: support requests and restores
MiscountNext ==
  \/ Tick
  \/ \E t \in Tasks : Quiet /\ Submit(t, OneProc, {ValidPayload})
  \/ \E t \in Tasks :
       Quiet /\ AdminRestoreFrom(t, OneProc, BackupNames \cup {BrokenName, MiscountName})
  \/ \E t \in Tasks : EnsureFile(t)
  \/ \E t \in Tasks : EnsureFileInit(t)
  \/ \E t \in Tasks : ReadQueue(t)
  \/ \E t \in Tasks : AppendWrite(t)
  \/ \E t \in Tasks : BackupStat(t)
  \/ \E t \in Tasks : BackupWrite(t)
  \/ \E t \in Tasks : RestoreLoad(t)
  \/ \E t \in Tasks : RestoreWrite(t)

MiscountSpec == MiscountInit /\ [][MiscountNext]_vars

\* One server process; support requests, backups and retention runs overlap
RaceNext ==
  \/ Tick
  \/ \E t \in Tasks : Submit(t, OneProc, {ValidPayload})
  \/ \E t \in Tasks : AdminBackup(t, OneProc)
  \/ \E t \in Tasks : AdminRetention(t, OneProc)
  \/ \E t \in Tasks : EnsureFile(t)
  \/ \E t \in Tasks : EnsureFileInit(t)
  \/ \E t \in Tasks : ReadQueue(t)
  \/ \E t \in Tasks : AppendWrite(t)
  \/ \E t \in Tasks : BackupStat(t)
  \/ \E t \in Tasks : BackupWrite(t)
  \/ \E t \in Tasks : RetentionWrite(t)

RaceSpec == Init /\ [][RaceNext]_vars

\* One server process taking overlapping support requests, the steps of
\* fs.writeFile told apart
TornNext ==
  \/ Tick
  \/ \E t \in Tasks : Submit(t, OneProc, {ValidPayload})
  \/ \E t \in Tasks : EnsureFile(t)
  \/ \E t \in Tasks : EnsureFileInit(t)
  \/ \E t \in Tasks : ReadQueue(t)
  \/ \E t \in Tasks : ReadQueueFails(t)
  \/ \E t \in Tasks : WriteOpen(t)
  \/ \E t \in Tasks : AppendWrite(t)

TornSpec == Init /\ [][TornNext]_vars

\* the queue file holds what is no array of records
CorruptInit ==
  /\ queueFile \in {[exists |-> TRUE, text |-> text] : text \in {GarbageText, ObjectText}}
  /\ backupDir = WriteInto(WriteInto(<<>>, LegacyName, LegacyText), BrokenName, BrokenText)
  /\ now = 0
  /\ nextUuid = 0
  /\ rateLimitStore = [p \in Procs |-> [ip \in IPs |-> NoLimitEntry]]
  /\ retentionPeriod \in RetentionPeriods
  /\ task = [t \in Tasks |-> IdleTask]
  /\ made = {}
  /\ submitted = <<>>
  /\ exportDir = <<>>
  /\ backupInterval = 0
  /\ timers = {}
  /\ timerSeq = 0

\* One server process, one request at a time: support requests and backups
CorruptNext ==
  \/ Tick
  \/ \E t \in Tasks : Quiet /\ Submit(t, OneProc, {ValidPayload})
  \/ \E t \in Tasks : Quiet /\ AdminBackup(t, OneProc)
  \/ \E t \in Tasks : EnsureFile(t)
  \/ \E t \in Tasks : ReadQueueFails(t)
  \/ \E t \in Tasks : ReadQueueObject(t)
  \/ \E t \in Tasks : BackupStat(t)
  \/ \E t \in Tasks : BackupWrite(t)

CorruptSpec == CorruptInit /\ [][CorruptNext]_vars

---------------------------------------------------------------------------
(* What the properties below speak of *)

\* the queue: the records the queue file holds (none while there is no file)
DataOf(file) == IF file.exists THEN JSONParse(file.text) ELSE <<>>

Queue == DataOf(queueFile)

Ids(queue) == {queue[i].id : i \in 1..Len(queue)}

\* task t takes a new request in this step
Started(t) == Idle(t) /\ task'[t] # task[t]

\* the data array of a backup file
BackupDataOf(dir, name) == JSONParse(dir[name]).data

---------------------------------------------------------------------------
(* C1 *)

---------------------------------------------------------------------------
(* C2 *)

\* C2 as written: a POST /support that is not rate-limited and whose payload
\* violates a field constraint is answered 400.
C2_AsWritten ==
  \A t \in Tasks :
    (task[t].op = "submit" /\ task[t].status # 429 /\ ~SafeParseSuccess(task[t].sent))
      => task[t].pc = "done" /\ task[t].status = 400

\* C2, amended: a POST /support that is not rate-limited and whose payload
\* violates a field constraint after sanitizeInput is answered 400 at once:
\* no record and no id is created, the queue file and the backups stay as
\* they are.
C2_RejectsUnchanged ==
  [][\A t \in Tasks :
       (Started(t) /\ task'[t].op = "submit" /\ task'[t].status # 429
          /\ ~SafeParseSuccess(SanitizeObject(task'[t].sent)))
         => /\ task'[t].pc = "done" /\ task'[t].status = 400
            /\ task'[t].entry = NoEntry
            /\ UNCHANGED <<queueFile, backupDir, nextUuid,
               exportDir, backupInterval, timers, timerSeq>>]_vars

\* {} was answered 400 while the queue held a record
C2_Witness ==
  \E t \in Tasks :
    /\ task[t].op = "submit" /\ task[t].pc = "done" /\ task[t].status = 400
    /\ task[t].sent = EmptyPayload
    /\ Len(Queue) >= 1

---------------------------------------------------------------------------
(* C3 *)

\* task t is a POST /support that was answered 201
Accepted(t) == task[t].op = "submit" /\ task[t].pc = "done" /\ task[t].status = 201

In(queue, r) == \E i \in 1..Len(queue) : queue[i] = r

\* C3: in one server process that takes nothing but support requests, once
\* two overlapping POST /support have both been answered 201 the queue holds
\* both new records.
C3_SingleProcessAtomic ==
  \A t, u \in Tasks :
    (t # u /\ Accepted(t) /\ Accepted(u))
      => In(Queue, task[t].entry) /\ In(Queue, task[u].entry)

---------------------------------------------------------------------------
(* C4 *)

\* the queue an append read: what it is about to write, less its own record
Prior(t) == SubSeq(task[t].queue, 1, Len(task[t].queue) - 1)

\* two appends of different processes, both answered 201, read the same queue
RacedApart(t, u) ==
  /\ t # u /\ Accepted(t) /\ Accepted(u)
  /\ task[t].proc # task[u].proc
  /\ Prior(t) = Prior(u)

\* C4: when two processes' appends have read the same prior queue and both
\* were answered 201, the queue is that prior queue plus the record of one of
\* them: the other's record is missing.
C4_MultiProcessLosesOne ==
  \A t, u \in Tasks :
    RacedApart(t, u)
      => /\ Queue \in {Append(Prior(t), task[t].entry), Append(Prior(u), task[u].entry)}
         /\ ~(In(Queue, task[t].entry) /\ In(Queue, task[u].entry))

\* both answered 201 after reading the same queue, one record is not there
C4_Witness ==
  \E t, u \in Tasks :
    /\ RacedApart(t, u)
    /\ Queue = Append(Prior(u), task[u].entry)
    /\ ~In(Queue, task[t].entry)

---------------------------------------------------------------------------
(* C5 *)

\* C5: with one request at a time, the records POST /support created have
\* pairwise different ids and createdAt does not decrease in the order of
\* their creation; the same holds of the records along the queue.
C5_UniqueIdsOrderedTimes ==
  /\ \A i, j \in 1..Len(submitted) :
       i < j => /\ submitted[i].id # submitted[j].id
                /\ submitted[i].createdAt <= submitted[j].createdAt
  /\ \A i, j \in 1..Len(Queue) :
       i < j => /\ Queue[i].id # Queue[j].id
                /\ Queue[i].createdAt <= Queue[j].createdAt

\* two records created at different times are both in the queue
C5_Witness ==
  /\ Len(submitted) = 2 /\ Queue = submitted
  /\ submitted[1].createdAt < submitted[2].createdAt
  /\ Quiet

---------------------------------------------------------------------------
(* C6 *)

\* C6: with one request at a time, a restore of the backup that POST
\* /admin/backup returned, with nothing but appends and retention runs in
\* between, leaves the queue equal to the queue that backup was taken of.
C6_RoundTrip ==
  [][\A t \in Tasks :
       (task[t].op = "restore" /\ task[t].pc = "r_write" /\ task'[t].pc = "done")
         => \A m \in made : m[1] = task[t].arg => Queue' = m[2]]_vars

---------------------------------------------------------------------------
(* C7 *)

\* C7: with one request at a time, a restore that passes its checks holds
\* the data array of backup f as it read it and leaves the queue alone until
\* its write; when it writes, the safety backup it made is there and holds
\* the queue as it is just before the write; the write leaves the queue
\* equal to the data read from f, and the restore answers 200.
C7_SafetyBackupThenReplace ==
  [][\A t \in Tasks :
       /\ (task[t].op = "restore" /\ task[t].pc = "r_load" /\ task'[t].pc = "q_ensure")
            => task'[t].data = BackupDataOf(backupDir, task[t].arg)
       /\ (task[t].op = "restore" /\ ~Idle(t) /\ task[t].pc # "r_write")
            => Queue' = Queue /\ task'[t].arg = task[t].arg
       /\ (task[t].op = "restore" /\ task[t].pc \notin {"idle", "done", "r_load"})
            => task'[t].data = task[t].data
       /\ (task[t].op = "restore" /\ task[t].pc = "r_write" /\ task'[t].pc = "done")
            => /\ task[t].filename \in DOMAIN backupDir
               /\ BackupDataOf(backupDir, task[t].filename) = Queue
               /\ Queue' = task[t].data
               /\ task'[t].status = 200]_vars

\* a restore replaced a queue of one record by an older, empty backup; the
\* safety backup holds the record
C7_Witness ==
  \E t \in Tasks :
    /\ task[t].op = "restore" /\ task[t].pc = "done" /\ task[t].status = 200
    /\ task[t].filename # task[t].arg
    /\ Len(BackupDataOf(backupDir, task[t].filename)) = 1
    /\ Queue = <<>>
    /\ Queue = BackupDataOf(backupDir, task[t].arg)

---------------------------------------------------------------------------
(* C8 *)

\* the file named is not there, or has no data array, or has a record
\* without one of the five fields
Unrestorable(dir, name) ==
  \/ name \notin DOMAIN dir
  \/ "data" \notin DOMAIN dir[name].value
  \/ \E i \in 1..Len(dir[name].value.data) :
       \E k \in {"id", "name", "email", "topic", "message"} :
         k \notin DOMAIN dir[name].value.data[i]

\* C8: a restore of a backup that does not exist, has no data array or has a
\* record missing one of id, name, email, topic, message fails (the route
\* answers 500) and leaves the queue file and the backups as they are.
C8_BadBackupLeavesQueue ==
  [][\A t \in Tasks :
       (task[t].op = "restore" /\ task[t].pc = "r_load" /\ task'[t] # task[t]
          /\ Unrestorable(backupDir, task[t].arg))
         => /\ task'[t].pc = "done" /\ task'[t].status = 500
            /\ UNCHANGED <<queueFile, backupDir,
               exportDir, backupInterval, timers, timerSeq>>]_vars

\* the restore of the backup with an incomplete record failed; the queue
\* holds a record
C8_Witness ==
  \E t \in Tasks :
    /\ task[t].op = "restore" /\ task[t].pc = "done" /\ task[t].status = 500
    /\ task[t].arg = BrokenName
    /\ Len(Queue) >= 1

---------------------------------------------------------------------------
(* C9 *)

\* C9: with one request at a time, a step of a retention run that changes
\* the queue is its write, and then the backup the run made is there and
\* holds the whole queue as it is just before the write; a run with
\* retention period 0 ends with the queue empty.
C9_BackupBeforeDrop ==
  [][\A t \in Tasks :
       (task[t].op = "retention" /\ ~Idle(t))
         => /\ Queue' # Queue
                => /\ task[t].pc = "t_write"
                   /\ task[t].filename \in DOMAIN backupDir
                   /\ BackupDataOf(backupDir, task[t].filename) = Queue
                   /\ Len(Queue') < Len(Queue)
            /\ (retentionPeriod = 0 /\ task'[t].pc = "done") => Queue' = <<>>]_vars

\* a run with period 0 emptied the queue; its backup holds the records
C9_Witness ==
  \E t \in Tasks :
    /\ task[t].op = "retention" /\ task[t].pc = "done" /\ task[t].status = 200
    /\ retentionPeriod = 0
    /\ Queue = <<>>
    /\ task[t].filename \in DOMAIN backupDir
    /\ Len(BackupDataOf(backupDir, task[t].filename)) >= 1

---------------------------------------------------------------------------
(* C10 *)

\* every record of the queue is younger than the retention period
AllAfterCutoff ==
  \A i \in 1..Len(Queue) : Queue[i].createdAt > now - retentionPeriod

\* C10 as written: while every record of the queue has createdAt after the
\* cutoff, a retention run writes neither the queue file nor a backup.
C10_AsWritten ==
  [][\A t \in Tasks :
       (task[t].op = "retention" /\ ~Idle(t) /\ AllAfterCutoff)
         => UNCHANGED <<queueFile, backupDir>>]_vars

\* C10, amended: while every record of the queue has createdAt after the
\* cutoff, a retention run leaves the queue's content and the backups as
\* they are, writes the queue file only to create it when it is not there,
\* and ends at its read of the queue.
C10_NoOpWhenAllYoung ==
  [][\A t \in Tasks :
       (task[t].op = "retention" /\ ~Idle(t) /\ AllAfterCutoff)
         => /\ Queue' = Queue
            /\ backupDir' = backupDir
            /\ queueFile.exists => queueFile' = queueFile
            /\ (task[t].pc = "q_read" /\ task'[t] # task[t])
                 => task'[t].pc = "done" /\ task'[t].status = 200]_vars

\* a run ended without a backup and left a queue of one young record
C10_Witness ==
  \E t \in Tasks :
    /\ task[t].op = "retention" /\ task[t].pc = "done" /\ task[t].status = 200
    /\ task[t].filename = NoName
    /\ Len(Queue) >= 1
    /\ AllAfterCutoff

---------------------------------------------------------------------------
(* C11 *)

\* C11: with one request at a time, every createBackup (of POST
\* /admin/backup, of a restore, of a retention run) writes a file whose name
\* no file of the backup directory has, and leaves every file that was there
\* as it was.
C11_NeverOverwrites ==
  [][\A t \in Tasks :
       (task[t].pc = "b_write" /\ task'[t].pc # "b_write")
         => /\ task[t].filename \notin DOMAIN backupDir
            /\ DOMAIN backupDir' = DOMAIN backupDir \cup {task[t].filename}
            /\ \A n \in DOMAIN backupDir : backupDir'[n] = backupDir[n]]_vars

---------------------------------------------------------------------------
(* C12 *)

\* the backup files of a directory, and the metadata timestamp of one
BackupFilesOf(dir) == {n \in DOMAIN dir : IsBackupFile(n) /\ JSONParses(dir[n])}

StampOf(dir, name) == JSONParse(dir[name]).metadata.timestamp

\* C12: a listBackups call over backups that all carry metadata returns
\* every backup file of the directory once, each with its own metadata, a
\* backup with a later metadata timestamp before one with an earlier, for
\* every order in which readdir returns the files.
C12_ListsNewestFirst ==
  [][\A t \in Tasks :
       (task[t].pc = "l_list" /\ task'[t].pc = "done")
         => LET result == task'[t].result
            IN  /\ task'[t].status = 200
                /\ Len(result) = Cardinality(BackupFilesOf(backupDir))
                /\ {result[i].filename : i \in 1..Len(result)} = BackupFilesOf(backupDir)
                /\ \A i \in 1..Len(result) :
                     result[i].metadata.timestamp = StampOf(backupDir, result[i].filename)
                /\ \A i, j \in 1..Len(result) :
                     i < j => result[i].metadata.timestamp >= result[j].metadata.timestamp]_vars

\* four backups listed, readdir having returned the oldest first
C12_Witness ==
  \E t \in Tasks :
    /\ task[t].op = "list" /\ task[t].pc = "done" /\ task[t].status = 200
    /\ Len(task[t].result) = 4
    /\ task[t].data = <<LegacyName, BrokenName, GenerateBackupFilename(0),
                        GenerateBackupFilename(1)>>
    /\ task[t].result[1].filename = GenerateBackupFilename(1)
    /\ task[t].result[4].filename = LegacyName

---------------------------------------------------------------------------
(* C13 *)

\* the backups of dir that fewer than keepCount backups are newer than
NewestOf(dir, keepCount) ==
  {n \in BackupFilesOf(dir) :
     Cardinality({m \in BackupFilesOf(dir) : StampOf(dir, m) > StampOf(dir, n)}) < keepCount}

DistinctStamps(dir) ==
  \A n, m \in BackupFilesOf(dir) : n # m => StampOf(dir, n) # StampOf(dir, m)

\* C13: a cleanupOldBackups(keepCount) over n backups of distinct metadata
\* timestamps in which no unlink fails leaves the min(n, keepCount) newest
\* backups, each as it was, and deletes the others.
C13_KeepsNewest ==
  [][\A t \in Tasks :
       (/\ task[t].pc = "c_list" /\ task'[t].pc # "c_list"
        /\ DistinctStamps(backupDir)
        /\ task'[t].status # 500
        /\ task'[t].result.failed = {})
         => LET n == Cardinality(BackupFilesOf(backupDir))
                keepCount == task[t].opts.keepCount
            IN  /\ BackupFilesOf(backupDir') = NewestOf(backupDir, keepCount)
                /\ Cardinality(BackupFilesOf(backupDir')) = Min(n, keepCount)
                /\ task'[t].result.deletedCount = n - Min(n, keepCount)
                /\ \A name \in DOMAIN backupDir' : backupDir'[name] = backupDir[name]]_vars

\* DELETE /admin/backups/cleanup?keep=2 over four backups left the two newest
C13_Witness ==
  \E t \in Tasks :
    /\ task[t].op = "cleanup" /\ task[t].pc = "done" /\ task[t].status = 200
    /\ task[t].opts.keepCount = 2
    /\ task[t].result.totalBackups = 4 /\ task[t].result.deletedCount = 2
    /\ DOMAIN backupDir = BackupNames

---------------------------------------------------------------------------
(* C14 *)

\* C14: whatever start and stop calls were made, at most one interval timer
\* is armed, the scheduler holds a handle exactly when a timer is armed, and
\* the handle is that timer's; the set of armed timers changes only from
\* none to one (start while stopped) or from one to none (stop while
\* running).
C14_AtMostOneTimer ==
  /\ [](/\ Cardinality(timers) <= 1
        /\ backupInterval # 0 <=> timers # {}
        /\ backupInterval # 0 => timers = {backupInterval})
  /\ [][timers' # timers =>
          \/ timers = {} /\ backupInterval = 0 /\ timers' = {backupInterval'}
          \/ timers = {backupInterval} /\ timers' = {} /\ backupInterval' = 0]_vars

\* started, stopped and started again: the second timer is the one armed
C14_Witness == backupInterval = 2 /\ timers = {2} /\ timerSeq = 2

---------------------------------------------------------------------------
(* C15 *)

\* C15: a tick that fails (in createBackup, cleanupOldBackups or
\* applyDataRetention) while the scheduler is running leaves the scheduler's
\* handle and its timer as they were, the timer armed, and the callback ended.
C15_FailedTickKeepsTimer ==
  [][\A t \in Tasks :
       (/\ task[t].op = "tick" /\ ~Idle(t)
        /\ task'[t].pc = "done" /\ task'[t].status = 500
        /\ backupInterval # 0)
         => /\ backupInterval' = backupInterval
            /\ timers' = timers
            /\ timers' = {backupInterval'}]_vars

\* a tick failed in its applyDataRetention, after its backup was written;
\* the timer is armed
C15_Witness ==
  \E t \in Tasks :
    /\ task[t].op = "tick" /\ task[t].pc = "done" /\ task[t].status = 500
    /\ task[t].phase = "retention"
    /\ Exists(backupDir, task[t].filename)
    /\ backupInterval # 0 /\ timers = {backupInterval}

---------------------------------------------------------------------------
(* C16 *)

\* record r passes the filters of options o
Matches(r, o) ==
  /\ o.dateRange # <<>> => (o.dateRange[1] <= r.createdAt /\ r.createdAt <= o.dateRange[2])
  /\ o.urgencyFilter # <<>> => r.urgency = o.urgencyFilter

MatchingOf(queue, o) == SelectSeq(queue, LAMBDA r : Matches(r, o))

\* C16: an export that was answered wrote, in queue order, the records of
\* the queue whose urgency is the urgency filter (when one is given) and whose
\* createdAt lies within the date range, bounds included (when one is
\* given), and no other; recordCount is their number.
C16_ExportsMatching ==
  \A t \in Tasks :
    (task[t].op = "export" /\ task[t].pc = "done" /\ task[t].status = 200)
      => LET expected == MatchingOf(Queue, task[t].opts)
             file == exportDir[task[t].result.filename]
         IN  /\ task[t].result.recordCount = Len(expected)
             /\ task[t].opts.format = "json" => JSONParse(file).data = expected
             /\ task[t].opts.format = "csv" => file.value = CsvContent(expected)

\* of a normal record made at 0 and an urgent one made at 1, the export of
\* the urgent records from 1 to 1 holds the second alone
C16_Witness ==
  \E t \in Tasks :
    /\ task[t].op = "export" /\ task[t].pc = "done" /\ task[t].status = 200
    /\ task[t].opts.format = "json"
    /\ task[t].opts.urgencyFilter = Urgent /\ task[t].opts.dateRange = <<1, 1>>
    /\ Len(Queue) = 2 /\ Queue[1].urgency = Normal /\ Queue[1].createdAt = 0
    /\ task[t].result.recordCount = 1
    /\ JSONParse(exportDir[task[t].result.filename]).data = <<Queue[2]>>

---------------------------------------------------------------------------
(* C17 *)

Lines(text) == Count(text, "\n") + 1

\* the line breaks and the double quotes inside the free-text fields
RECURSIVE BreaksIn(_)
BreaksIn(requests) ==
  IF requests = <<>> THEN 0
  ELSE Count(Head(requests).name, "\n") + Count(Head(requests).topic, "\n")
       + Count(Head(requests).message, "\n") + BreaksIn(Tail(requests))

RECURSIVE QuotesIn(_)
QuotesIn(requests) ==
  IF requests = <<>> THEN 0
  ELSE Count(Head(requests).name, "\"") + Count(Head(requests).topic, "\"")
       + Count(Head(requests).message, "\"") + QuotesIn(Tail(requests))

\* a CSV export that was answered
CsvDone(t) ==
  /\ task[t].op = "export" /\ task[t].pc = "done" /\ task[t].status = 200
  /\ task[t].opts.format = "csv"

\* C17 as written: the CSV export of no record is a file of length zero, that
\* of N >= 1 records a file of N + 1 lines.
C17_AsWritten ==
  \A t \in Tasks :
    CsvDone(t)
      => LET text == exportDir[task[t].result.filename].value
             n == task[t].result.recordCount
         IN  IF n = 0 THEN text = <<>> ELSE Lines(text) = n + 1

\* C17, amended: the CSV export of no record is a file of length zero; that
\* of N >= 1 records is a file of N + 1 lines and one more for every line
\* break inside a name, topic or message; it holds the two quotes around each
\* name, topic and message and two double quotes for every double quote
\* inside them.
C17_CsvRows ==
  \A t \in Tasks :
    CsvDone(t)
      => LET text == exportDir[task[t].result.filename].value
             n == task[t].result.recordCount
         IN  IF n = 0 THEN text = <<>> /\ task[t].result.fileSize = 0
             ELSE /\ Lines(text) = n + 1 + BreaksIn(task[t].filtered)
                  /\ Count(text, "\"") = 6 * n + 2 * QuotesIn(task[t].filtered)

\* two records, one whose name holds a double quote and one whose message
\* holds a line break: four lines
C17_Witness ==
  \E t \in Tasks :
    /\ CsvDone(t)
    /\ task[t].result.recordCount = 2
    /\ QuotesIn(task[t].filtered) = 1 /\ BreaksIn(task[t].filtered) = 1
    /\ Lines(exportDir[task[t].result.filename].value) = 4

---------------------------------------------------------------------------
(* C18 *)

\* C18: every export writes a file whose name no export file has, and leaves
\* the export files that were there as they were.
C18_FreshFilename ==
  [][\A t \in Tasks :
       (task[t].pc = "x_write" /\ task'[t].pc # "x_write")
         => /\ task[t].filename \notin DOMAIN exportDir
            /\ \A n \in DOMAIN exportDir : exportDir'[n] = exportDir[n]]_vars

---------------------------------------------------------------------------
(* C19 *)

\* every record has the two fields the statistics read besides the topic
Whole(queue) ==
  \A i \in 1..Len(queue) : Has(queue[i], "urgency") /\ Has(queue[i], "createdAt")

Times(queue) == {queue[i].createdAt : i \in 1..Len(queue)}

\* what the claim says of the statistics `stats` of `queue`
StatsAsClaimed(stats, queue) ==
  /\ stats.totalRequests = Len(queue)
  /\ stats.urgentRequests = Len(SelectSeq(queue, LAMBDA r : r.urgency = Urgent))
  /\ stats.normalRequests = Len(SelectSeq(queue, LAMBDA r : r.urgency = Normal))
  /\ stats.urgentRequests + stats.normalRequests = stats.totalRequests
  /\ IF queue = <<>>
       THEN /\ stats.dateRange = [earliest |-> <<>>, latest |-> <<>>]
            /\ stats.topTopics = <<>> /\ stats.requestsByMonth = <<>>
       ELSE /\ stats.dateRange.earliest =
                 <<CHOOSE a \in Times(queue) : \A b \in Times(queue) : a <= b>>
            /\ stats.dateRange.latest =
                 <<CHOOSE a \in Times(queue) : \A b \in Times(queue) : a >= b>>

StatsDone(t) == task[t].op = "stats" /\ task[t].pc = "done" /\ task[t].status # 429

---------------------------------------------------------------------------
(* C20 *)

\* C20: with one request at a time, an ensureFile that finds the queue file
\* leaves it as it is and writes nothing, in appendToQueue and in readQueue
\* alike; one that does not find it goes on to write, the file is still
\* absent when it does, and the file then holds the empty array.
C20_EnsureIdempotent ==
  [][\A t \in Tasks :
       /\ (task[t].pc \in {"a_ensure", "q_ensure"} /\ task'[t].pc # task[t].pc)
            => /\ queueFile' = queueFile
               /\ task'[t].pc \in {"a_init", "q_init"} <=> ~queueFile.exists
       /\ (task[t].pc \in {"a_init", "q_init"} /\ task'[t].pc # task[t].pc)
            => /\ ~queueFile.exists
               /\ queueFile' = [exists |-> TRUE, text |-> EmptyQueueText]]_vars

\* the ensureFile of an append has passed over a queue file that holds a
\* record: the readQueue of the same append calls ensureFile again
C20_Witness ==
  \E t \in Tasks :
    /\ task[t].op = "submit" /\ task[t].pc = "q_ensure"
    /\ queueFile.exists /\ Len(Queue) >= 1

---------------------------------------------------------------------------
(* C21 *)

\* C21: in every state, those in the middle of a write of the queue file
\* included, the queue file holds a whole, valid array of records, and no
\* request has read anything else from it (none was answered 400 for the
\* SyntaxError of readQueue's JSON.parse).
C21_QueueFileWhole ==
  /\ queueFile.exists => queueFile.text.kind = "json"
  /\ \A t \in Tasks :
       (task[t].pc = "done" /\ SafeParseSuccess(SanitizeObject(task[t].sent)))
         => task[t].status # 400

---------------------------------------------------------------------------
(* C22 *)

\* C22: a client whose requests are all POST /support within one window is
\* answered 429 only after five of its requests have reached the handler
\* (each of them built a record), and the request answered 429 leaves the
\* queue file as it is.
C22_FiveThenRefused ==
  /\ \A t \in Tasks :
       (task[t].op = "submit" /\ task[t].pc = "done" /\ task[t].status = 429)
         => Len(submitted) >= SupportMax
  /\ Len(Queue) <= Len(submitted)

---------------------------------------------------------------------------
(* C23 *)

\* C23: while the queue file holds what is no array of records (a text that
\* does not parse, or JSON that is no array), the step in which a request's
\* readQueue has read the file ends the request with an error, and no step
\* changes the file.
C23_CorruptQueueFails ==
  [][(queueFile.exists /\ queueFile.text.kind # "json")
       => /\ queueFile' = queueFile
          /\ \A t \in Tasks :
               (task[t].pc = "q_read" /\ task'[t] # task[t])
                 => task'[t].pc = "done" /\ task'[t].status >= 400]_vars

---------------------------------------------------------------------------
(* C24 *)

\* the backup file holds a data array and a metadata.totalRequests that is
\* not the length of that array
Miscounted(dir, name) ==
  /\ Exists(dir, name)
  /\ JSONParses(dir[name])
  /\ Has(JSONParse(dir[name]), "metadata")
  /\ Has(JSONParse(dir[name]), "data")
  /\ JSONParse(dir[name]).metadata.totalRequests # Len(JSONParse(dir[name]).data)

\* C24: a restoreFromBackup that has read a backup whose metadata.totalRequests
\* differs from the length of its data array ends with an error in that step
\* and the queue file stays as it is.
C24_MiscountRejected ==
  [][\A t \in Tasks :
       (task[t].pc = "r_load" /\ task'[t] # task[t] /\ Miscounted(backupDir, task[t].arg))
         => /\ task'[t].pc = "done" /\ task'[t].status >= 400
            /\ queueFile' = queueFile]_vars

---------------------------------------------------------------------------
(* C25 *)

\* the records of queue created strictly after cutoff, in the order of queue
Younger(queue, cutoff) ==
  LET Young(r) == r.createdAt > cutoff IN SelectSeq(queue, Young)

\* C25: with one request at a time, applyDataRetention takes from the queue it
\* has read the records created strictly after cutoff = now - retentionPeriod,
\* in their order (a record created at the cutoff is not among them), and its
\* write, which happens when something was dropped, puts exactly these
\* records in the queue file, which until then held the queue that was read.
C25_KeepsYoungerInOrder ==
  [][\A t \in Tasks :
       /\ (task[t].pc = "q_read" /\ task[t].ctx = "retention" /\ task'[t] # task[t])
            => /\ task'[t].queue = Queue
               /\ task'[t].filtered = Younger(Queue, now - retentionPeriod)
       /\ (task[t].pc = "t_write" /\ task'[t] # task[t])
            => /\ Queue = task[t].queue
               /\ Len(task[t].filtered) < Len(Queue)
               /\ Queue' = task[t].filtered]_vars

\* a retention run has ended that dropped the record created at its cutoff
\* and kept the record created after it
C25_Witness ==
  \E t \in Tasks :
    /\ task[t].op = "retention" /\ task[t].pc = "done" /\ task[t].status = 200
    /\ retentionPeriod = 1
    /\ Len(task[t].queue) = 2
    /\ task[t].queue[1].createdAt = 0 /\ task[t].queue[2].createdAt = 1
    /\ Queue = <<task[t].queue[2]>>

---------------------------------------------------------------------------
(* C26 *)

\* C26: when applyDataRetention writes the queue back, with other requests
\* running between its read and this write, every record the write takes out
\* of the queue file was created at or before now - retentionPeriod (the
\* cutoff is no later) and is in the backup file this run wrote; so a record
\* appended during the run stays in the queue.
C26_RemovesOnlyOldAndBackedUp ==
  [][\A t \in Tasks :
       (task[t].pc = "t_write" /\ task'[t] # task[t])
         => \A i \in 1..Len(Queue) :
              ~In(Queue', Queue[i])
                => /\ Queue[i].createdAt <= now - retentionPeriod
                   /\ Exists(backupDir, task[t].filename)
                   /\ In(BackupDataOf(backupDir, task[t].filename), Queue[i])]_vars

---------------------------------------------------------------------------
(* C27 *)

\* the files of the backup directory that are named as backups and hold JSON
\* with a metadata
Listable(dir) ==
  {name \in DOMAIN dir :
     /\ IsBackupFile(name)
     /\ dir[name].kind = "json"
     /\ Has(JSONParse(dir[name]), "metadata")}

\* C27: listBackups answers with the backups whose content and metadata
\* parse, leaving the other files out, and does not fail; nor does a
\* cleanupOldBackups fail in its listing.
C27_BadFilesLeftOut ==
  [][\A t \in Tasks :
       /\ (task[t].pc = "l_list" /\ task'[t] # task[t])
            => /\ task'[t].status = 200
               /\ {task'[t].result[i].filename : i \in 1..Len(task'[t].result)}
                    = Listable(backupDir)
       /\ (task[t].pc = "c_list" /\ task'[t] # task[t])
            => task'[t].status = 200]_vars

---------------------------------------------------------------------------
(* C28 *)

\* C28: a tick starts with createBackup; it goes on to cleanupOldBackups(30)
\* in the step that ends createBackup's write of the backup file, and to
\* applyDataRetention in the step that ends cleanupOldBackups; within a phase
\* it runs that phase's operation and no other, or fails and ends.
C28_TickOrder ==
  [][\A t \in Tasks :
       (task'[t].op = "tick" /\ task'[t] # task[t])
         => \/ /\ Idle(t)
               /\ task'[t].phase = "backup"
               /\ task'[t].ctx = "backup" /\ task'[t].pc = "q_ensure"
            \/ /\ ~Idle(t) /\ task'[t].phase = task[t].phase
               /\ task[t].phase = "backup" => task'[t].ctx = "backup" \/ task'[t].pc = "done"
               /\ task[t].phase = "cleanup" => task'[t].pc = "done"
               /\ task[t].phase = "retention" => task'[t].pc # "c_list"
            \/ /\ task[t].phase = "backup" /\ task[t].pc = "b_write"
               /\ Exists(backupDir', task[t].filename)
               /\ task'[t].phase = "cleanup" /\ task'[t].pc = "c_list"
               /\ task'[t].opts.keepCount = TickKeepCount
            \/ /\ task[t].phase = "cleanup" /\ task[t].pc = "c_list"
               /\ task'[t].phase = "retention"
               /\ task'[t].ctx = "retention" /\ task'[t].pc = "q_ensure"]_vars

\* a tick has run its three operations to the end, its retention dropping a
\* record after the backup taken by its createBackup
C28_Witness ==
  \E t \in Tasks :
    /\ task[t].op = "tick" /\ task[t].pc = "done" /\ task[t].status = 200
    /\ task[t].phase = "retention"
    /\ Len(task[t].filtered) < Len(task[t].queue)
    /\ Exists(backupDir, task[t].filename)

---------------------------------------------------------------------------
(* C29 *)

\* what a limiter's increment finds for a client at time t
SeenBy(store, ip, t) == StoreGet(store, GenerateKey(ip), t)

\* C29: a request to /admin, which generalRateLimit and adminRateLimit count,
\* leaves the count and the window end that supportRequestRateLimit finds
\* for the same client as they were.
C29_TiersIndependent ==
  [][\A t \in Tasks :
       (Started(t) /\ task'[t].op # "submit")
         => \A ip \in IPs :
              SeenBy(rateLimitStore'[task'[t].proc], ip, now)
                = SeenBy(rateLimitStore[task'[t].proc], ip, now)]_vars

---------------------------------------------------------------------------
(* C30 *)

\* C30: every backup file that createBackup has written holds a
\* metadata.totalRequests that is the length of the file's own data array,
\* whatever other requests ran while the backup was taken.
C30_CountIsDataLength ==
  \A name \in BackupNames :
    Exists(backupDir, name)
      => JSONParse(backupDir[name]).metadata.totalRequests
           = Len(BackupDataOf(backupDir, name))

\* a POST /admin/backup has ended during which an append was written, between
\* the backup's read of the queue file and its stat: the file size in the
\* metadata is that of a longer queue than the backup's data
C30_Witness ==
  \E t \in Tasks :
    /\ task[t].op = "backup" /\ task[t].pc = "done" /\ task[t].status = 201
    /\ Exists(backupDir, task[t].filename)
    /\ BackupDataOf(backupDir, task[t].filename) = task[t].queue
    /\ JSONParse(backupDir[task[t].filename]).metadata.fileSize
         > FileSize(JSONStringify(task[t].queue))

====
